---- MODULE Spec2Model ----
(***************************************************************************)
(* State-machine model of the CodexMonitor daemon                          *)
(* (src-tauri/src/bin/codex_monitor_daemon.rs): the per-connection         *)
(* protocol of handle_client, the broadcast event bus, and the workspace   *)
(* and session registries of DaemonState.  Every await of the source is a  *)
(* step boundary: tasks of different connections interleave there.         *)
(***************************************************************************)
EXTENDS Integers, Sequences, FiniteSets, TLC

VARIABLES
    token,          \* DaemonConfig.token: None (--insecure-no-auth) or the secret
    status,         \* per connection: "none" (not accepted), "open", "closed"
    authenticated,  \* handle_client's local `authenticated`
    events_task,    \* handle_client's `events_task`: "none", "running", "done"
    rx,             \* the broadcast receiver's next position (events consumed)
    out,            \* messages accepted by the connection's unbounded out_tx queue
    wrote,          \* how many of them write_task has written to the socket
    write_task,     \* "running" or "ended" (write error or abort)
    pc,             \* where the connection's read loop stands
    loc,            \* the locals of the operation the read loop is awaiting
    nlines,         \* lines read so far, over all connections
    lastline,       \* the line read last and the connection that read it
    bus,            \* every event sent on the broadcast channel, in order
    workspaces,     \* DaemonState.workspaces: id -> WorkspaceEntry
    sessions,       \* DaemonState.sessions: id -> session handle
    lock_sessions,  \* holder of the sessions mutex across an await (0: free)
    lock_workspaces,\* holder of the workspaces mutex across an await (0: free)
    stored,         \* workspaces.json: id -> the JSON object of the entry
    app_settings,   \* DaemonState.app_settings
    settings_file,  \* settings.json: the JSON document last written
    procs,          \* every subprocess ever spawned: handle -> [ws, alive, path]
    fs,             \* worktree directories that exist on disk
    nextId          \* how many ids Uuid::new_v4 has produced

connVars == <<status, authenticated, events_task, rx, out, wrote, write_task, pc, loc, nlines,
              lastline>>
daemonVars == <<workspaces, sessions, lock_sessions, lock_workspaces, stored, app_settings, settings_file,
               procs, fs, nextId>>
vars == <<token, status, authenticated, events_task, rx, out, wrote, write_task, pc, loc,
          nlines, lastline, bus, workspaces, sessions, lock_sessions, lock_workspaces, stored, app_settings,
          settings_file, procs, fs, nextId>>

(***************************************************************************)
(* Bounds of the model.                                                    *)
(***************************************************************************)
NumConns == 2
MaxLines == 3
MaxBusLines == 3
MaxLiveLines == 2
MaxRegLines == 3
MaxRpcLines == 3
MaxListLines == 3
MaxTurnLines == 3
MaxLoadLines == 2
MaxCloseLines == 2
MaxAllocLines == 2
MaxLockLines == 3
MaxEvents == 2
BusCapacity == 1
MaxProcs == 2

Conns == 1..NumConns

None == "None"
NoId == -1
Secret == "secret"

(***************************************************************************)
(* JSON values (serde_json::Value), tagged by kind.                        *)
(***************************************************************************)
JAbsent == [k |-> "absent"]
JNull == [k |-> "null"]
JStr(s) == [k |-> "str", s |-> s]
JNum(n) == [k |-> "num", n |-> n]
JObj(o) == [k |-> "obj", o |-> o]
JBool(b) == [k |-> "bool", b |-> b]
\* a non-negative number given by its 16-bit words, the most significant first
JWords(w) == [k |-> "words", w |-> w]
JArr(a) == [k |-> "arr", a |-> a]
\* a line that serde_json::from_str rejects
BadLine == [k |-> "bad"]

\* Value::get(key)
JGet(v, key) == IF v.k = "obj" THEN (IF key \in DOMAIN v.o THEN v.o[key] ELSE JAbsent) ELSE JAbsent
\* Value::as_str().is_some()
JIsStr(v) == v.k = "str"
\* Value::as_u64, as an Option: NoId when the value is no unsigned integer
JAsU64(v) == IF v.k = "num" THEN (IF v.n >= 0 THEN v.n ELSE NoId) ELSE NoId

\* handle_client: the envelope fields of a decoded line
ReqId(m) == JAsU64(JGet(m, "id"))
ReqMethod(m) == IF JIsStr(JGet(m, "method")) THEN JGet(m, "method").s ELSE ""
ReqParams(m) == IF JGet(m, "params").k = "absent" THEN JNull ELSE JGet(m, "params")

\* Option<String>::unwrap_or_default
UnwrapOrDefault(opt) == IF opt = None THEN "" ELSE opt

parse_auth_token(params) ==
    IF params.k = "str" THEN params.s
    ELSE IF params.k = "obj" /\ JIsStr(JGet(params, "token")) THEN JGet(params, "token").s
    ELSE None

\* parse_string: [ok, v] with v the string or the error message (the source
\* puts the key between backquotes)
parse_string(value, key) ==
    IF value.k = "obj"
    THEN (IF JIsStr(JGet(value, key))
          THEN [ok |-> TRUE, v |-> JGet(value, key).s]
          ELSE [ok |-> FALSE, v |-> "missing or invalid " \o key])
    ELSE [ok |-> FALSE, v |-> "missing " \o key]

(***************************************************************************)
(* Outbound messages.                                                      *)
(***************************************************************************)
NoMsg == [t |-> "none", id |-> NoId, msg |-> "", ev |-> 0]

build_error_response(id, message) ==
    IF id = NoId THEN NoMsg ELSE [t |-> "error", id |-> id, msg |-> message, ev |-> 0]

\* (mutant) no result is ever built
build_result_response_none(id, result) == NoMsg

\* (mutant) a missing id is answered as id 0
build_result_response_id0(id, result) ==
    [t |-> "result", id |-> IF id = NoId THEN 0 ELSE id, msg |-> result, ev |-> 0]

build_result_response(id, result) ==
    IF id = NoId THEN NoMsg ELSE [t |-> "result", id |-> id, msg |-> result, ev |-> 0]

\* the notification of the ev-th event of the bus
build_event_notification(ev) ==
    [t |-> "notif", id |-> NoId,
     msg |-> IF bus[ev].kind = "AppServer" THEN "app-server-event" ELSE "terminal-output",
     ev |-> ev]

\* out_tx.send(m): fails once write_task has dropped the receiver
SendOk(c) == write_task[c] = "running"
\* (mutant) the message goes to every connection's queue
out_send_all(o, c, m) ==
    IF m.t = "none" \/ ~SendOk(c) THEN o ELSE [d \in Conns |-> Append(o[d], m)]

out_send(o, c, m) ==
    IF m.t = "none" \/ ~SendOk(c) THEN o ELSE [o EXCEPT ![c] = Append(@, m)]

\* the reply to a finished operation r = [ok, v]
ReplyTo(id, r) == IF r.ok THEN build_result_response(id, r.v) ELSE build_error_response(id, r.v)

(***************************************************************************)
(* Registry data.                                                          *)
(***************************************************************************)
\* the n-th id Uuid::new_v4 produces: fresh, never reused
Id(n) == "w" \o ToString(n)

Put(f, k, v) == [x \in DOMAIN f \cup {k} |-> IF x = k THEN v ELSE f[x]]
Del(f, K) == [x \in DOMAIN f \ K |-> f[x]]
EmptyMap == [x \in {} |-> x]

\* a filesystem path: the repository directory (its segments) and, for a
\* worktree, the characters of its directory name under <repo>/.codex-worktrees/
MainPath(dir) == [dir |-> dir, leaf |-> <<>>]
WorktreeDir(dir, leaf) == [dir |-> dir, leaf |-> leaf]

\* Option<u32>: <<>> is None, Some(n) is the two 16-bit words <<hi, lo>> of n
NoOrder == <<>>
SomeOrder(hi, lo) == <<hi, lo>>
\* u32::MAX
U32Max == SomeOrder(65535, 65535)

DefaultSettings == [sidebar_collapsed |-> FALSE, sort_order |-> NoOrder]

NoEntry == [id |-> None]

\* (worktree: <<>> is None, else the branch of the WorktreeInfo)
MainEntry(id, name, path, bin) ==
    [id |-> id, name |-> name, path |-> path, codex_bin |-> bin, kind |-> "main",
     parent_id |-> None, worktree |-> <<>>, settings |-> DefaultSettings]

WorktreeEntry(id, branch, path, parent) ==
    [id |-> id, name |-> branch, path |-> path, codex_bin |-> parent.codex_bin,
     kind |-> "worktree", parent_id |-> parent.id, worktree |-> branch,
     settings |-> DefaultSettings]

\* (mutant) no entry counts as a worktree
is_worktree_never(entry) == FALSE

is_worktree(entry) == entry.kind = "worktree"

\* the WorkspaceInfo built from an entry and its connection status
WorkspaceInfo(entry, connected) ==
    [id |-> entry.id, name |-> entry.name, path |-> entry.path, connected |-> connected,
     codex_bin |-> entry.codex_bin, kind |-> entry.kind, parent_id |-> entry.parent_id,
     worktree |-> entry.worktree, settings |-> entry.settings]

(***************************************************************************)
(* The persisted form of the types (types.rs: derive(Serialize,            *)
(* Deserialize) and the serde attributes) and the two files of the store.  *)
(***************************************************************************)
\* Option<String>: null when None; absent or null read as None
OptionToJson(opt) == IF opt = None THEN JNull ELSE JStr(opt)
OptionFromJson(v) ==
    IF v.k \in {"absent", "null"} THEN [ok |-> TRUE, v |-> None]
    ELSE IF v.k = "str" THEN [ok |-> TRUE, v |-> v.s]
    ELSE [ok |-> FALSE, v |-> None]

\* (mutant) an entry without kind loads as a worktree
DefaultKindWorktree == "worktree"

\* impl Default for WorkspaceKind
DefaultKind == "main"

\* WorkspaceKind, rename_all = "lowercase"
KindToJson(kind) == IF kind = "worktree" THEN JStr("worktree") ELSE JStr("main")
KindFromJson(v) ==
    IF v.k = "absent" THEN [ok |-> TRUE, v |-> DefaultKind]
    ELSE IF v.k = "str" /\ v.s \in {"main", "worktree"} THEN [ok |-> TRUE, v |-> v.s]
    ELSE [ok |-> FALSE, v |-> DefaultKind]

\* Option<WorktreeInfo>
WorktreeToJson(w) == IF w = <<>> THEN JNull ELSE JObj([branch |-> JStr(w)])
WorktreeFromJson(v) ==
    IF v.k \in {"absent", "null"} THEN [ok |-> TRUE, v |-> <<>>]
    ELSE IF JIsStr(JGet(v, "branch")) THEN [ok |-> TRUE, v |-> JGet(v, "branch").s]
    ELSE [ok |-> FALSE, v |-> <<>>]

WorkspaceSettingsToJson(st) ==
    JObj([sidebarCollapsed |-> JBool(st.sidebar_collapsed),
          sortOrder |-> IF st.sort_order = NoOrder THEN JNull ELSE JWords(st.sort_order)])

\* serde_json::from_value::<WorkspaceSettings>: sortOrder is absent, null or a
\* number of at most two 16-bit words (JWords), sidebarCollapsed absent or bool
settings_from_value(v) ==
    IF v.k # "obj" THEN [ok |-> FALSE, v |-> "invalid type", settings |-> DefaultSettings]
    ELSE LET so == JGet(v, "sortOrder")
             sc == JGet(v, "sidebarCollapsed")
         IN  IF so.k \notin {"absent", "null", "words"} \/ sc.k \notin {"absent", "bool"}
             THEN [ok |-> FALSE, v |-> "invalid type", settings |-> DefaultSettings]
             ELSE IF so.k = "words" /\ Len(so.w) > 2
             THEN [ok |-> FALSE, v |-> "invalid value", settings |-> DefaultSettings]
             ELSE [ok |-> TRUE, v |-> "",
                   settings |-> [sidebar_collapsed |-> IF sc.k = "bool" THEN sc.b ELSE FALSE,
                                 sort_order |->
                                     IF so.k # "words" THEN NoOrder
                                     ELSE IF Len(so.w) = 2 THEN so.w
                                     ELSE IF Len(so.w) = 1 THEN SomeOrder(0, so.w[1])
                                     ELSE SomeOrder(0, 0)]]
\* the settings of an entry: #[serde(default)]
EntrySettingsFromJson(v) ==
    IF v.k = "absent" THEN [ok |-> TRUE, v |-> "", settings |-> DefaultSettings]
    ELSE settings_from_value(v)

WorkspaceEntryToJson(e) ==
    JObj([id |-> JStr(e.id), name |-> JStr(e.name), path |-> JStr(e.path),
          codex_bin |-> OptionToJson(e.codex_bin), kind |-> KindToJson(e.kind),
          parentId |-> OptionToJson(e.parent_id), worktree |-> WorktreeToJson(e.worktree),
          settings |-> WorkspaceSettingsToJson(e.settings)])

\* [ok, v]: id, name and path are required, unknown keys are ignored
WorkspaceEntryFromJson(v) ==
    LET bin == OptionFromJson(JGet(v, "codex_bin"))
        kind == KindFromJson(JGet(v, "kind"))
        parent == OptionFromJson(JGet(v, "parentId"))
        worktree == WorktreeFromJson(JGet(v, "worktree"))
        st == EntrySettingsFromJson(JGet(v, "settings"))
    IN  IF /\ v.k = "obj"
           /\ JIsStr(JGet(v, "id")) /\ JIsStr(JGet(v, "name")) /\ JIsStr(JGet(v, "path"))
           /\ bin.ok /\ kind.ok /\ parent.ok /\ worktree.ok /\ st.ok
        THEN [ok |-> TRUE,
              v |-> [id |-> JGet(v, "id").s, name |-> JGet(v, "name").s,
                     path |-> JGet(v, "path").s, codex_bin |-> bin.v, kind |-> kind.v,
                     parent_id |-> parent.v, worktree |-> worktree.v,
                     settings |-> st.settings]]
        ELSE [ok |-> FALSE, v |-> NoEntry]

\* BackendMode, rename_all = "lowercase", and its Default
DefaultBackendMode == "local"
BackendModeToJson(mode) == IF mode = "remote" THEN JStr("remote") ELSE JStr("local")
BackendModeFromJson(v) ==
    IF v.k = "absent" THEN [ok |-> TRUE, v |-> DefaultBackendMode]
    ELSE IF v.k = "str" /\ v.s \in {"local", "remote"} THEN [ok |-> TRUE, v |-> v.s]
    ELSE [ok |-> FALSE, v |-> DefaultBackendMode]

default_access_mode == "current"
default_remote_backend_host == "127.0.0.1:4732"
\* 1.0, in hundredths (ui_scale is kept in hundredths)
default_ui_scale == 100
default_notification_sounds_enabled == TRUE

\* a JSON number with a fraction, in hundredths
JFloat(h) == [k |-> "float", h |-> h]

\* impl Default for AppSettings
DefaultAppSettings ==
    [codex_bin |-> None, backend_mode |-> "local",
     remote_backend_host |-> default_remote_backend_host, remote_backend_token |-> None,
     default_access_mode |-> "current", ui_scale |-> 100,
     notification_sounds_enabled |-> TRUE]

\* a String field with a default function
StringOrDefault(v, default) ==
    IF v.k = "absent" THEN [ok |-> TRUE, v |-> default]
    ELSE IF v.k = "str" THEN [ok |-> TRUE, v |-> v.s]
    ELSE [ok |-> FALSE, v |-> default]

\* f64 with a default function: an integer is accepted as well
ScaleFromJson(v) ==
    IF v.k = "absent" THEN [ok |-> TRUE, v |-> default_ui_scale]
    ELSE IF v.k = "float" THEN [ok |-> TRUE, v |-> v.h]
    ELSE IF v.k = "num" THEN [ok |-> TRUE, v |-> v.n * 100]
    ELSE [ok |-> FALSE, v |-> default_ui_scale]

BoolOrDefault(v, default) ==
    IF v.k = "absent" THEN [ok |-> TRUE, v |-> default]
    ELSE IF v.k = "bool" THEN [ok |-> TRUE, v |-> v.b]
    ELSE [ok |-> FALSE, v |-> default]

AppSettingsToJson(a) ==
    JObj([codexBin |-> OptionToJson(a.codex_bin),
          backendMode |-> BackendModeToJson(a.backend_mode),
          remoteBackendHost |-> JStr(a.remote_backend_host),
          remoteBackendToken |-> OptionToJson(a.remote_backend_token),
          defaultAccessMode |-> JStr(a.default_access_mode),
          uiScale |-> JFloat(a.ui_scale),
          notificationSoundsEnabled |-> JBool(a.notification_sounds_enabled)])

AppSettingsFromJson(v) ==
    LET bin == OptionFromJson(JGet(v, "codexBin"))
        mode == BackendModeFromJson(JGet(v, "backendMode"))
        host == StringOrDefault(JGet(v, "remoteBackendHost"), default_remote_backend_host)
        tok == OptionFromJson(JGet(v, "remoteBackendToken"))
        access == StringOrDefault(JGet(v, "defaultAccessMode"), default_access_mode)
        scale == ScaleFromJson(JGet(v, "uiScale"))
        sounds == BoolOrDefault(JGet(v, "notificationSoundsEnabled"),
                                default_notification_sounds_enabled)
    IN  IF /\ v.k = "obj"
           /\ bin.ok /\ mode.ok /\ host.ok /\ tok.ok /\ access.ok /\ scale.ok /\ sounds.ok
        THEN [ok |-> TRUE,
              v |-> [codex_bin |-> bin.v, backend_mode |-> mode.v,
                     remote_backend_host |-> host.v, remote_backend_token |-> tok.v,
                     default_access_mode |-> access.v, ui_scale |-> scale.v,
                     notification_sounds_enabled |-> sounds.v]]
        ELSE [ok |-> FALSE, v |-> DefaultAppSettings]

\* (mutant) only the Main entries are collected
MainValues(ws) == [w \in {x \in DOMAIN ws : ws[x].kind = "main"} |-> ws[w]]

\* workspaces.values().cloned().collect(): the list handed to write_workspaces
AllValues(ws) == ws


\* write_workspaces(&storage_path, &list): the file is rewritten with the
\* entries of the list
write_workspaces(file, list) == [id \in DOMAIN list |-> WorkspaceEntryToJson(list[id])]

\* read_workspaces(&storage_path): [ok, v]; one entry that does not
\* deserialize fails the whole file
read_workspaces(file) ==
    IF \A id \in DOMAIN file : WorkspaceEntryFromJson(file[id]).ok
    THEN [ok |-> TRUE, v |-> [id \in DOMAIN file |-> WorkspaceEntryFromJson(file[id]).v]]
    ELSE [ok |-> FALSE, v |-> EmptyMap]

write_settings(file, settings) == AppSettingsToJson(settings)

\* read_settings(&settings_path): a missing file gives the default settings
read_settings(file) ==
    IF file.k = "absent" THEN [ok |-> TRUE, v |-> DefaultAppSettings]
    ELSE AppSettingsFromJson(file)

\* DaemonState::load: read_workspaces(..).unwrap_or_default() and
\* read_settings(..).unwrap_or_default()
LoadWorkspaces(file) == IF read_workspaces(file).ok THEN read_workspaces(file).v ELSE EmptyMap
LoadSettings(file) == IF read_settings(file).ok THEN read_settings(file).v ELSE DefaultAppSettings

\* the arguments of send_user_message and the params of its "turn/start"
NoArgs == [thread_id |-> "", text |-> <<>>, model |-> None, effort |-> None,
           access_mode |-> None, images |-> [some |-> FALSE, v |-> <<>>]]
NoTurn == [threadId |-> "", input |-> <<>>, cwd |-> MainPath(<<>>), approvalPolicy |-> "",
           sandboxPolicy |-> [type |-> ""], model |-> None, effort |-> None]

\* the locals of an operation in progress
\* (ret stays after the return: what the operation last run returned)
NoRet == [ok |-> FALSE, v |-> ""]
\* (info and list stay too: the WorkspaceInfo or the list it returned)
Loc0 == [id |-> NoId, ret |-> NoRet, arg |-> None, branch |-> <<>>,
         entry |-> NoEntry, parent |-> NoEntry, children |-> {}, todo |-> {},
         child |-> NoEntry, held |-> 0, path |-> MainPath(<<>>),
         info |-> NoEntry, list |-> <<>>, settings |-> DefaultSettings, bin |-> None,
         args |-> NoArgs, turn |-> NoTurn, app |-> DefaultAppSettings]

\* workspaces.json as DaemonState::load finds it: one Main workspace saved by
\* an earlier run (no session is live after a restart)
RepoName == <<"r", "e", "p", "o">>
LoadedWorkspaces == Put(EmptyMap, Id(1), MainEntry(Id(1), RepoName, MainPath(<<RepoName>>), None))

InitDaemon ==
    /\ stored = write_workspaces(EmptyMap, LoadedWorkspaces)
    /\ workspaces = LoadWorkspaces(stored)
    /\ settings_file = JAbsent
    /\ app_settings = LoadSettings(settings_file)
    /\ sessions = EmptyMap
    /\ lock_sessions = 0
    /\ lock_workspaces = 0
    /\ procs = <<>>
    /\ fs = EmptyMap
    /\ nextId = 1

InitConns ==
    /\ status = [c \in Conns |-> "none"]
    /\ authenticated = [c \in Conns |-> FALSE]
    /\ events_task = [c \in Conns |-> "none"]
    /\ rx = [c \in Conns |-> 0]
    /\ out = [c \in Conns |-> <<>>]
    /\ wrote = [c \in Conns |-> 0]
    /\ write_task = [c \in Conns |-> "running"]
    /\ pc = [c \in Conns |-> "read"]
    /\ loc = [c \in Conns |-> Loc0]
    /\ nlines = 0
    /\ lastline = [c |-> 0, m |-> JNull]
    /\ bus = <<>>

(***************************************************************************)
(* The event bus: broadcast::channel(BusCapacity) (2048 in main).          *)
(***************************************************************************)
EventKinds == {"AppServer", "TerminalOutput"}

\* (mutant) the new receiver starts at the oldest retained event
SubscribeAtOldest == IF Len(bus) > BusCapacity THEN Len(bus) - BusCapacity ELSE 0

\* events.subscribe(): the new receiver starts at the tail
Subscribe == Len(bus)

\* (mutant) recv never reports a lag
RecvKindNoLag(r) == IF r >= Len(bus) THEN "wait" ELSE "event"

\* Receiver::recv on a receiver at position r: "wait", "lagged" or "event"
RecvKind(r) ==
    IF r >= Len(bus) THEN "wait"
    ELSE IF r < Len(bus) - BusCapacity THEN "lagged"
    ELSE "event"

\* (mutant) a lagging receiver jumps to the tail
AfterLagToTail(r) == Len(bus)

\* (mutant) recv does not advance the receiver
AfterRecvStay(r) == r

\* the receiver's position after recv returned Lagged: the oldest retained event
AfterLag(r) == Len(bus) - BusCapacity
\* the receiver's position after recv returned an event
AfterRecv(r) == r + 1

\* EventSink::emit_*: a live session's subprocess produced an event; send never
\* blocks.  authed records which connections were Authenticated at the send.
Emit(kind) ==
    /\ \E p \in 1..Len(procs) : procs[p].alive
    /\ Len(bus) < MaxEvents
    /\ bus' = Append(bus, [kind |-> kind,
                           authed |-> {c \in Conns : status[c] = "open" /\ authenticated[c]}])
    /\ UNCHANGED <<token, connVars, daemonVars>>

\* forward_events: one iteration of the loop of connection c's events_task
ForwardEvents(c) ==
    /\ events_task[c] = "running"
    /\ RecvKind(rx[c]) # "wait"
    /\ IF RecvKind(rx[c]) = "lagged"
       THEN /\ rx' = [rx EXCEPT ![c] = AfterLag(rx[c])]
            /\ UNCHANGED <<out, events_task>>
       ELSE /\ rx' = [rx EXCEPT ![c] = AfterRecv(rx[c])]
            /\ out' = out_send(out, c, build_event_notification(rx[c] + 1))
            /\ events_task' = [events_task EXCEPT ![c] = IF SendOk(c) THEN "running" ELSE "done"]
    /\ UNCHANGED <<token, status, authenticated, wrote, write_task, pc, loc, nlines, lastline, bus, daemonVars>>

(***************************************************************************)
(* handle_client.                                                          *)
(***************************************************************************)
\* (mutant) no connection starts Authenticated
StartsUnauthenticated(tok) == FALSE

\* let mut authenticated = config.token.is_none()
StartsAuthenticated(tok) == tok = None

\* listener.accept() + the start of handle_client
Accept(c) ==
    /\ status[c] = "none"
    /\ \A d \in Conns : d < c => status[d] # "none"
    /\ status' = [status EXCEPT ![c] = "open"]
    /\ authenticated' = [authenticated EXCEPT ![c] = StartsAuthenticated(token)]
    /\ IF StartsAuthenticated(token)
       THEN /\ events_task' = [events_task EXCEPT ![c] = "running"]
            /\ rx' = [rx EXCEPT ![c] = Subscribe]
       ELSE UNCHANGED <<events_task, rx>>
    /\ UNCHANGED <<token, out, wrote, write_task, pc, loc, nlines, lastline, bus, daemonVars>>

\* write_task: one message of the queue written to the socket
WriteOne(c) ==
    /\ status[c] = "open" /\ write_task[c] = "running"
    /\ wrote[c] < Len(out[c])
    /\ wrote' = [wrote EXCEPT ![c] = @ + 1]
    /\ UNCHANGED <<token, status, authenticated, events_task, rx, out, write_task, pc, loc,
                   nlines, lastline, bus, daemonVars>>

\* write_task: writer.write_all fails, the loop breaks and out_rx is dropped
WriteFail(c) ==
    /\ status[c] = "open" /\ write_task[c] = "running"
    /\ wrote[c] < Len(out[c])
    /\ write_task' = [write_task EXCEPT ![c] = "ended"]
    /\ UNCHANGED <<token, status, authenticated, events_task, rx, out, wrote, pc, loc,
                   nlines, lastline, bus, daemonVars>>

\* the read loop ends (EOF or read error): out_tx is dropped, both tasks are
\* aborted and handle_client returns, so its locals and its queue are gone
Close(c) ==
    /\ status[c] = "open" /\ pc[c] = "read"
    /\ status' = [status EXCEPT ![c] = "closed"]
    /\ authenticated' = [authenticated EXCEPT ![c] = FALSE]
    /\ events_task' = [events_task EXCEPT ![c] = "none"]
    /\ rx' = [rx EXCEPT ![c] = 0]
    /\ out' = [out EXCEPT ![c] = <<>>]
    /\ wrote' = [wrote EXCEPT ![c] = 0]
    /\ write_task' = [write_task EXCEPT ![c] = "ended"]
    /\ loc' = [loc EXCEPT ![c] = Loc0]
    /\ UNCHANGED <<token, pc, nlines, lastline, bus, daemonVars>>

(***************************************************************************)
(* WorktreeManager helpers.                                                *)
(***************************************************************************)
AsciiAlnum ==
    {"a", "b", "c", "d", "e", "f", "g", "h", "i", "j", "k", "l", "m", "n", "o", "p", "q", "r",
     "s", "t", "u", "v", "w", "x", "y", "z", "A", "B", "C", "D", "E", "F", "G", "H", "I", "J",
     "K", "L", "M", "N", "O", "P", "Q", "R", "S", "T", "U", "V", "W", "X", "Y", "Z", "0", "1",
     "2", "3", "4", "5", "6", "7", "8", "9"}

RECURSIVE TrimStart(_, _)
TrimStart(s, cs) == IF s # <<>> /\ Head(s) \in cs THEN TrimStart(Tail(s), cs) ELSE s
RECURSIVE TrimEnd(_, _)
TrimEnd(s, cs) ==
    IF s # <<>> /\ s[Len(s)] \in cs THEN TrimEnd(SubSeq(s, 1, Len(s) - 1), cs) ELSE s
\* str::trim_matches
TrimMatches(s, cs) == TrimEnd(TrimStart(s, cs), cs)
\* (mutant) the branch is not trimmed
TrimNothing(s) == s

\* str::trim
Trim(s) == TrimMatches(s, {" "})

sanitize_worktree_name(branch) ==
    LET result == [i \in 1..Len(branch) |->
                      IF branch[i] \in AsciiAlnum \cup {"-", "_", "."} THEN branch[i] ELSE "-"]
        trimmed == TrimMatches(result, {"-"})
    IN  IF trimmed = <<>> THEN <<"w", "o", "r", "k", "t", "r", "e", "e">> ELSE trimmed

\* the decimal digits of n, as format! prints them
Digit(d) == <<"0", "1", "2", "3", "4", "5", "6", "7", "8", "9">>[d + 1]
RECURSIVE Decimal(_)
Decimal(n) == IF n < 10 THEN <<Digit(n)>> ELSE Decimal(n \div 10) \o <<Digit(n % 10)>>

\* Path::exists on a worktree directory
Exists(path) == path \in DOMAIN fs

\* the end of the range of suffixes unique_worktree_path tries (2..1000)
SuffixEnd == 1000

\* base_dir.join(format!("{name}-{index}"))
SuffixedPath(dir, name, index) == WorktreeDir(dir, name \o <<"-">> \o Decimal(index))

\* the loop over 2..1000: the first suffixed path that does not exist, or the
\* candidate it started with
FirstFreeSuffix(dir, name, candidate) ==
    IF \E index \in 2..(SuffixEnd - 1) : ~Exists(SuffixedPath(dir, name, index))
    THEN SuffixedPath(dir, name,
                      CHOOSE index \in 2..(SuffixEnd - 1) :
                        /\ ~Exists(SuffixedPath(dir, name, index))
                        /\ \A j \in 2..(index - 1) : Exists(SuffixedPath(dir, name, j)))
    ELSE candidate

\* (mutant) the base name is taken whether it exists or not
unique_worktree_path_base(dir, name) == WorktreeDir(dir, name)

unique_worktree_path(dir, name) ==
    IF ~Exists(WorktreeDir(dir, name)) THEN WorktreeDir(dir, name)
    ELSE FirstFreeSuffix(dir, name, WorktreeDir(dir, name))

\* git refuses `worktree add` on a path that exists or a branch that another
\* worktree of the repository has checked out
GitCanAddWorktree(path, branch) ==
    /\ ~Exists(path)
    /\ {q \in DOMAIN fs : q.dir = path.dir /\ fs[q] = branch} = {}

(***************************************************************************)
(* Steps shared by the operations of DaemonState.                          *)
(***************************************************************************)
\* the operation goes on to the step `label` with locals l
Goto(c, label, l) ==
    /\ pc' = [pc EXCEPT ![c] = label]
    /\ loc' = [loc EXCEPT ![c] = l]
    /\ UNCHANGED out

\* the operation returned r = [ok, v]: handle_client enqueues the reply (if the
\* request had an id) and goes back to reading
Return(c, id, r) ==
    /\ out' = out_send(out, c, ReplyTo(id, r))
    /\ pc' = [pc EXCEPT ![c] = "read"]
    /\ loc' = [loc EXCEPT ![c] = [Loc0 EXCEPT !.ret = r]]

\* the operation returned Ok with a WorkspaceInfo
ReturnInfo(c, id, r, info) ==
    /\ out' = out_send(out, c, ReplyTo(id, r))
    /\ pc' = [pc EXCEPT ![c] = "read"]
    /\ loc' = [loc EXCEPT ![c] = [Loc0 EXCEPT !.ret = r, !.info = info]]

\* the same for an operation that returns before its first await
ReturnNow(c, id, r) ==
    /\ out' = out_send(out, c, ReplyTo(id, r))
    /\ pc' = [pc EXCEPT ![c] = "read"]
    /\ loc' = [loc EXCEPT ![c] = [Loc0 EXCEPT !.ret = r]]

Ok(v) == [ok |-> TRUE, v |-> v]
Err(message) == [ok |-> FALSE, v |-> message]

\* what a step of an operation leaves alone in the connection layer
connFrame == <<token, status, authenticated, events_task, rx, wrote, write_task, nlines,
              lastline, bus>>
opFrame == <<connFrame, app_settings, settings_file>>

\* the operation returned Ok with a list of WorkspaceInfo
ReturnList(c, id, r, list) ==
    /\ out' = out_send(out, c, ReplyTo(id, r))
    /\ pc' = [pc EXCEPT ![c] = "read"]
    /\ loc' = [loc EXCEPT ![c] = [Loc0 EXCEPT !.ret = r, !.list = list]]

\* (mutant) the spawn ends the subprocesses spawned before
SpawnedAlone(ws, path) ==
    Append([h \in DOMAIN procs |-> [procs[h] EXCEPT !.alive = FALSE]],
           [ws |-> ws, alive |-> TRUE, path |-> path])

\* spawn_workspace_session succeeded: a new subprocess for workspace ws; the
\* session keeps the entry it was spawned with (its path is session.entry.path)
Spawned(ws, path) == Append(procs, [ws |-> ws, alive |-> TRUE, path |-> path])

\* (mutant) the kill ends every subprocess
KilledAll(h) == [x \in DOMAIN procs |-> [procs[x] EXCEPT !.alive = FALSE]]

\* (mutant) the guard of the sessions mutex is never dropped
UnlockNever(c) == c

\* the MutexGuard of the `if let` scrutinee is dropped at the end of the block:
\* the holder of the mutex afterwards
Unlock(c) == 0

\* Child::kill on the subprocess of handle h
Killed(h) == [procs EXCEPT ![h].alive = FALSE]

\* sessions.insert(id, session): an earlier handle under id is dropped as is
SessionsInsert(id, h) == Put(sessions, id, h)

(***************************************************************************)
(* DaemonState::connect_workspace.                                         *)
(***************************************************************************)
\* (mutant) the check never finds a session
NeverConnected(id) == FALSE

\* sessions.contains_key(&id)
AlreadyConnected(id) == id \in DOMAIN sessions

cw_check(c) ==
    /\ pc[c] = "cw_check" /\ lock_sessions = 0
    /\ IF AlreadyConnected(loc[c].arg)
       THEN Return(c, loc[c].id, Ok("ok"))
       ELSE Goto(c, "cw_entry", loc[c])
    /\ UNCHANGED <<opFrame, daemonVars>>

cw_entry(c) ==
    /\ pc[c] = "cw_entry" /\ lock_workspaces = 0
    /\ IF loc[c].arg \in DOMAIN workspaces
       THEN Goto(c, "cw_spawn", [loc[c] EXCEPT !.entry = workspaces[loc[c].arg]])
       ELSE Return(c, loc[c].id, Err("workspace not found"))
    /\ UNCHANGED <<opFrame, daemonVars>>

cw_spawn(c) ==
    /\ pc[c] = "cw_spawn"
    /\ \/ /\ Len(procs) < MaxProcs
          /\ procs' = Spawned(loc[c].arg, loc[c].entry.path)
          /\ Goto(c, "cw_insert", [loc[c] EXCEPT !.held = Len(procs) + 1])
       \/ /\ Return(c, loc[c].id, Err("spawn failed"))
          /\ UNCHANGED procs
    /\ UNCHANGED <<opFrame, workspaces, sessions, lock_sessions, lock_workspaces, stored, fs, nextId>>

cw_insert(c) ==
    /\ pc[c] = "cw_insert" /\ lock_sessions = 0
    /\ sessions' = SessionsInsert(loc[c].arg, loc[c].held)
    /\ Return(c, loc[c].id, Ok("ok"))
    /\ UNCHANGED <<opFrame, workspaces, lock_sessions, lock_workspaces, stored, procs, fs, nextId>>

(***************************************************************************)
(* DaemonState::add_workspace.                                             *)
(***************************************************************************)
\* PathBuf::file_name of the path, or "Workspace"
\* (mutant) every workspace gets the default name
WorkspaceNameDefault(dir) == <<"W", "o", "r", "k", "s", "p", "a", "c", "e">>

WorkspaceName(dir) ==
    IF dir # <<>> /\ dir[Len(dir)] # <<".", ".">>
    THEN dir[Len(dir)]
    ELSE <<"W", "o", "r", "k", "s", "p", "a", "c", "e">>

aw_spawn(c) ==
    /\ pc[c] = "aw_spawn"
    /\ \/ /\ Len(procs) < MaxProcs
          /\ procs' = Spawned(loc[c].entry.id, loc[c].entry.path)
          /\ Goto(c, "aw_insert", [loc[c] EXCEPT !.held = Len(procs) + 1])
       \/ /\ Return(c, loc[c].id, Err("spawn failed"))
          /\ UNCHANGED procs
    /\ UNCHANGED <<opFrame, workspaces, sessions, lock_sessions, lock_workspaces, stored, fs, nextId>>

\* workspaces.insert, then write_workspaces of the whole list (which may fail)
aw_insert(c) ==
    /\ pc[c] = "aw_insert" /\ lock_workspaces = 0
    /\ workspaces' = Put(workspaces, loc[c].entry.id, loc[c].entry)
    /\ \/ /\ stored' = write_workspaces(stored, AllValues(workspaces'))
          /\ Goto(c, "aw_session", loc[c])
       \/ /\ UNCHANGED stored
          /\ Return(c, loc[c].id, Err("write failed"))
    /\ UNCHANGED <<opFrame, sessions, lock_sessions, lock_workspaces, procs, fs, nextId>>

aw_session(c) ==
    /\ pc[c] = "aw_session" /\ lock_sessions = 0
    /\ sessions' = SessionsInsert(loc[c].entry.id, loc[c].held)
    /\ ReturnInfo(c, loc[c].id, Ok("workspace"), WorkspaceInfo(loc[c].entry, TRUE))
    /\ UNCHANGED <<opFrame, workspaces, lock_sessions, lock_workspaces, stored, procs, fs, nextId>>

(***************************************************************************)
(* DaemonState::add_worktree.                                              *)
(***************************************************************************)
\* the parent lookup, then (no await in between) create_dir_all,
\* ensure_worktree_ignored, sanitize_worktree_name and unique_worktree_path
wt_parent(c) ==
    /\ pc[c] = "wt_parent" /\ lock_workspaces = 0
    /\ IF loc[c].arg \notin DOMAIN workspaces
       THEN Return(c, loc[c].id, Err("parent workspace not found"))
       ELSE IF is_worktree(workspaces[loc[c].arg])
       THEN Return(c, loc[c].id, Err("Cannot create a worktree from another worktree."))
       ELSE \/ Return(c, loc[c].id, Err("Failed to create worktree directory"))
            \/ Goto(c, "wt_git",
                    [loc[c] EXCEPT !.parent = workspaces[loc[c].arg],
                                   !.path = unique_worktree_path(
                                                workspaces[loc[c].arg].path.dir,
                                                sanitize_worktree_name(loc[c].branch))])
    /\ UNCHANGED <<opFrame, daemonVars>>

\* git_branch_exists, then `git worktree add [-b]`
wt_git(c) ==
    /\ pc[c] = "wt_git"
    /\ \/ /\ GitCanAddWorktree(loc[c].path, loc[c].branch)
          /\ fs' = Put(fs, loc[c].path, loc[c].branch)
          /\ Goto(c, "wt_spawn", loc[c])
       \/ /\ Return(c, loc[c].id, Err("Git command failed."))
          /\ UNCHANGED fs
    /\ UNCHANGED <<opFrame, workspaces, sessions, lock_sessions, lock_workspaces, stored, procs, nextId>>

\* the entry gets its fresh id, then spawn_workspace_session
wt_spawn(c) ==
    /\ pc[c] = "wt_spawn"
    /\ nextId' = nextId + 1
    /\ \/ /\ Len(procs) < MaxProcs
          /\ procs' = Spawned(Id(nextId + 1), loc[c].path)
          /\ Goto(c, "wt_insert",
                  [loc[c] EXCEPT !.held = Len(procs) + 1,
                                 !.entry = WorktreeEntry(Id(nextId + 1), loc[c].branch,
                                                         loc[c].path, loc[c].parent)])
       \/ /\ Return(c, loc[c].id, Err("spawn failed"))
          /\ UNCHANGED procs
    /\ UNCHANGED <<opFrame, workspaces, sessions, lock_sessions, lock_workspaces, stored, fs>>

wt_insert(c) ==
    /\ pc[c] = "wt_insert" /\ lock_workspaces = 0
    /\ workspaces' = Put(workspaces, loc[c].entry.id, loc[c].entry)
    /\ \/ /\ stored' = write_workspaces(stored, AllValues(workspaces'))
          /\ Goto(c, "wt_session", loc[c])
       \/ /\ UNCHANGED stored
          /\ Return(c, loc[c].id, Err("write failed"))
    /\ UNCHANGED <<opFrame, sessions, lock_sessions, lock_workspaces, procs, fs, nextId>>

wt_session(c) ==
    /\ pc[c] = "wt_session" /\ lock_sessions = 0
    /\ sessions' = SessionsInsert(loc[c].entry.id, loc[c].held)
    /\ ReturnInfo(c, loc[c].id, Ok("workspace"), WorkspaceInfo(loc[c].entry, TRUE))
    /\ UNCHANGED <<opFrame, workspaces, lock_sessions, lock_workspaces, stored, procs, fs, nextId>>

(***************************************************************************)
(* DaemonState::remove_workspace.                                          *)
(***************************************************************************)
\* the entries whose parent_id is id
ChildWorktrees(id) == {workspaces[w] : w \in {x \in DOMAIN workspaces : workspaces[x].parent_id = id}}

\* (mutant) the child loop ends after its first child
RwAfterChildPrune(todo) == "rw_prune"

\* where the child loop goes once it is done with a child
RwAfterChild(todo) == IF todo = {} THEN "rw_prune" ELSE "rw_child"

rw_snapshot(c) ==
    /\ pc[c] = "rw_snapshot" /\ lock_workspaces = 0
    /\ IF loc[c].arg \notin DOMAIN workspaces
       THEN Return(c, loc[c].id, Err("workspace not found"))
       ELSE IF is_worktree(workspaces[loc[c].arg])
       THEN Return(c, loc[c].id, Err("Use remove_worktree for worktree agents."))
       ELSE Goto(c, RwAfterChild(ChildWorktrees(loc[c].arg)),
                 [loc[c] EXCEPT !.entry = workspaces[loc[c].arg],
                                !.children = ChildWorktrees(loc[c].arg),
                                !.todo = ChildWorktrees(loc[c].arg)])
    /\ UNCHANGED <<opFrame, daemonVars>>

\* the next child of the loop: sessions.lock().await.remove(&child.id); the guard
\* of the lock lives until the end of the `if let`, so over the kill
rw_child(c) ==
    /\ pc[c] = "rw_child" /\ lock_sessions = 0
    /\ \E child \in loc[c].todo :
         LET l == [loc[c] EXCEPT !.child = child, !.todo = loc[c].todo \ {child}] IN
         IF child.id \in DOMAIN sessions
         THEN /\ sessions' = Del(sessions, {child.id})
              /\ lock_sessions' = c
              /\ Goto(c, "rw_child_kill", [l EXCEPT !.held = sessions[child.id]])
         ELSE /\ UNCHANGED <<sessions, lock_sessions>>
              /\ Goto(c, IF Exists(child.path) THEN "rw_child_git" ELSE RwAfterChild(l.todo), l)
    /\ UNCHANGED <<opFrame, workspaces, lock_workspaces, stored, procs, fs, nextId>>

\* child_process.kill().await, the lock released, then child_path.exists()
rw_child_kill(c) ==
    /\ pc[c] = "rw_child_kill"
    /\ procs' = Killed(loc[c].held)
    /\ lock_sessions' = Unlock(c)
    /\ Goto(c, IF Exists(loc[c].child.path) THEN "rw_child_git" ELSE RwAfterChild(loc[c].todo),
            [loc[c] EXCEPT !.held = 0])
    /\ UNCHANGED <<opFrame, workspaces, lock_workspaces, sessions, stored, fs, nextId>>

\* git worktree remove --force <child.path>; a failure ends the operation
rw_child_git(c) ==
    /\ pc[c] = "rw_child_git"
    /\ \/ /\ Exists(loc[c].child.path)
          /\ fs' = Del(fs, {loc[c].child.path})
          /\ Goto(c, RwAfterChild(loc[c].todo), loc[c])
       \/ /\ Return(c, loc[c].id, Err("Git command failed."))
          /\ UNCHANGED fs
    /\ UNCHANGED <<opFrame, workspaces, sessions, lock_sessions, lock_workspaces, stored, procs, nextId>>

\* git worktree prune --expire now; its result is ignored
rw_prune(c) ==
    /\ pc[c] = "rw_prune"
    /\ Goto(c, "rw_own", loc[c])
    /\ UNCHANGED <<opFrame, daemonVars>>

rw_own(c) ==
    /\ pc[c] = "rw_own" /\ lock_sessions = 0
    /\ IF loc[c].arg \in DOMAIN sessions
       THEN /\ sessions' = Del(sessions, {loc[c].arg})
            /\ lock_sessions' = c
            /\ Goto(c, "rw_own_kill", [loc[c] EXCEPT !.held = sessions[loc[c].arg]])
       ELSE /\ UNCHANGED <<sessions, lock_sessions>>
            /\ Goto(c, "rw_commit", loc[c])
    /\ UNCHANGED <<opFrame, workspaces, lock_workspaces, stored, procs, fs, nextId>>

rw_own_kill(c) ==
    /\ pc[c] = "rw_own_kill"
    /\ procs' = Killed(loc[c].held)
    /\ lock_sessions' = Unlock(c)
    /\ Goto(c, "rw_commit", [loc[c] EXCEPT !.held = 0])
    /\ UNCHANGED <<opFrame, workspaces, lock_workspaces, sessions, stored, fs, nextId>>

\* the entry and the children of the snapshot leave the map, then the list is written
rw_commit(c) ==
    /\ pc[c] = "rw_commit" /\ lock_workspaces = 0
    /\ workspaces' = Del(workspaces, {loc[c].arg} \cup {ch.id : ch \in loc[c].children})
    /\ \/ /\ stored' = write_workspaces(stored, AllValues(workspaces'))
          /\ Return(c, loc[c].id, Ok("ok"))
       \/ /\ UNCHANGED stored
          /\ Return(c, loc[c].id, Err("write failed"))
    /\ UNCHANGED <<opFrame, sessions, lock_sessions, lock_workspaces, procs, fs, nextId>>

(***************************************************************************)
(* DaemonState::remove_worktree.                                           *)
(***************************************************************************)
rt_snapshot(c) ==
    /\ pc[c] = "rt_snapshot" /\ lock_workspaces = 0
    /\ IF loc[c].arg \notin DOMAIN workspaces
       THEN Return(c, loc[c].id, Err("workspace not found"))
       ELSE IF ~is_worktree(workspaces[loc[c].arg])
       THEN Return(c, loc[c].id, Err("Not a worktree workspace."))
       ELSE IF workspaces[loc[c].arg].parent_id = None
                \/ workspaces[loc[c].arg].parent_id \notin DOMAIN workspaces
       THEN Return(c, loc[c].id, Err("worktree parent not found"))
       ELSE Goto(c, "rt_session",
                 [loc[c] EXCEPT !.entry = workspaces[loc[c].arg],
                                !.parent = workspaces[workspaces[loc[c].arg].parent_id]])
    /\ UNCHANGED <<opFrame, daemonVars>>

rt_session(c) ==
    /\ pc[c] = "rt_session" /\ lock_sessions = 0
    /\ IF loc[c].entry.id \in DOMAIN sessions
       THEN /\ sessions' = Del(sessions, {loc[c].entry.id})
            /\ lock_sessions' = c
            /\ Goto(c, "rt_kill", [loc[c] EXCEPT !.held = sessions[loc[c].entry.id]])
       ELSE /\ UNCHANGED <<sessions, lock_sessions>>
            /\ Goto(c, IF Exists(loc[c].entry.path) THEN "rt_git" ELSE "rt_prune", loc[c])
    /\ UNCHANGED <<opFrame, workspaces, lock_workspaces, stored, procs, fs, nextId>>

rt_kill(c) ==
    /\ pc[c] = "rt_kill"
    /\ procs' = Killed(loc[c].held)
    /\ lock_sessions' = Unlock(c)
    /\ Goto(c, IF Exists(loc[c].entry.path) THEN "rt_git" ELSE "rt_prune",
            [loc[c] EXCEPT !.held = 0])
    /\ UNCHANGED <<opFrame, workspaces, lock_workspaces, sessions, stored, fs, nextId>>

rt_git(c) ==
    /\ pc[c] = "rt_git"
    /\ \/ /\ Exists(loc[c].entry.path)
          /\ fs' = Del(fs, {loc[c].entry.path})
          /\ Goto(c, "rt_prune", loc[c])
       \/ /\ Return(c, loc[c].id, Err("Git command failed."))
          /\ UNCHANGED fs
    /\ UNCHANGED <<opFrame, workspaces, sessions, lock_sessions, lock_workspaces, stored, procs, nextId>>

rt_prune(c) ==
    /\ pc[c] = "rt_prune"
    /\ Goto(c, "rt_commit", loc[c])
    /\ UNCHANGED <<opFrame, daemonVars>>

rt_commit(c) ==
    /\ pc[c] = "rt_commit" /\ lock_workspaces = 0
    /\ workspaces' = Del(workspaces, {loc[c].entry.id})
    /\ \/ /\ stored' = write_workspaces(stored, AllValues(workspaces'))
          /\ Return(c, loc[c].id, Ok("ok"))
       \/ /\ UNCHANGED stored
          /\ Return(c, loc[c].id, Err("write failed"))
    /\ UNCHANGED <<opFrame, sessions, lock_sessions, lock_workspaces, procs, fs, nextId>>

(***************************************************************************)
(* DaemonState::update_workspace_settings, update_workspace_codex_bin.     *)
(***************************************************************************)
\* get_mut + the new settings + write_workspaces of the whole list
us_update(c) ==
    /\ pc[c] = "us_update" /\ lock_workspaces = 0
    /\ IF loc[c].arg \notin DOMAIN workspaces
       THEN /\ Return(c, loc[c].id, Err("workspace not found"))
            /\ UNCHANGED <<workspaces, stored>>
       ELSE /\ workspaces' = [workspaces EXCEPT ![loc[c].arg].settings = loc[c].settings]
            /\ \/ /\ stored' = write_workspaces(stored, AllValues(workspaces'))
                  /\ Goto(c, "us_connected", [loc[c] EXCEPT !.entry = workspaces'[loc[c].arg]])
               \/ /\ UNCHANGED stored
                  /\ Return(c, loc[c].id, Err("write failed"))
    /\ UNCHANGED <<opFrame, sessions, lock_sessions, lock_workspaces, procs, fs, nextId>>

\* sessions.lock().await.contains_key(&id), then the WorkspaceInfo
us_connected(c) ==
    /\ pc[c] = "us_connected" /\ lock_sessions = 0
    /\ ReturnInfo(c, loc[c].id, Ok("workspace"),
                  WorkspaceInfo(loc[c].entry, loc[c].arg \in DOMAIN sessions))
    /\ UNCHANGED <<opFrame, daemonVars>>

ub_update(c) ==
    /\ pc[c] = "ub_update" /\ lock_workspaces = 0
    /\ IF loc[c].arg \notin DOMAIN workspaces
       THEN /\ Return(c, loc[c].id, Err("workspace not found"))
            /\ UNCHANGED <<workspaces, stored>>
       ELSE /\ workspaces' = [workspaces EXCEPT ![loc[c].arg].codex_bin = loc[c].bin]
            /\ \/ /\ stored' = write_workspaces(stored, AllValues(workspaces'))
                  /\ Goto(c, "ub_connected", [loc[c] EXCEPT !.entry = workspaces'[loc[c].arg]])
               \/ /\ UNCHANGED stored
                  /\ Return(c, loc[c].id, Err("write failed"))
    /\ UNCHANGED <<opFrame, sessions, lock_sessions, lock_workspaces, procs, fs, nextId>>

ub_connected(c) ==
    /\ pc[c] = "ub_connected" /\ lock_sessions = 0
    /\ ReturnInfo(c, loc[c].id, Ok("workspace"),
                  WorkspaceInfo(loc[c].entry, loc[c].arg \in DOMAIN sessions))
    /\ UNCHANGED <<opFrame, daemonVars>>

(***************************************************************************)
(* DaemonState::send_user_message.                                         *)
(***************************************************************************)
\* access_mode.unwrap_or_else(|| "current".to_string())
AccessModeOrCurrent(access_mode) == IF access_mode = None THEN "current" ELSE access_mode

\* the match on access_mode.as_str(); path is session.entry.path
sandbox_policy(access_mode, path) ==
    CASE access_mode = "full-access" -> [type |-> "dangerFullAccess"]
      [] access_mode = "read-only" -> [type |-> "readOnly"]
      [] OTHER -> [type |-> "workspaceWrite", writableRoots |-> <<path>>,
                   networkAccess |-> TRUE]

\* (mutant) no access mode turns the approvals off
approval_policy_on_request(access_mode) == "on-request"

approval_policy(access_mode) == IF access_mode = "full-access" THEN "never" ELSE "on-request"

\* str::starts_with
StartsWith(s, prefix) == Len(s) >= Len(prefix) /\ SubSeq(s, 1, Len(prefix)) = prefix

DataPrefix == <<"d", "a", "t", "a", ":">>
HttpPrefix == <<"h", "t", "t", "p", ":", "/", "/">>
HttpsPrefix == <<"h", "t", "t", "p", "s", ":", "/", "/">>

\* the loop over the images: blank paths are skipped
RECURSIVE image_inputs(_)
image_inputs(paths) ==
    IF paths = <<>> THEN <<>>
    ELSE LET trimmed == Trim(Head(paths))
             rest == image_inputs(Tail(paths))
         IN  IF trimmed = <<>> THEN rest
             ELSE IF StartsWith(trimmed, DataPrefix) \/ StartsWith(trimmed, HttpPrefix)
                     \/ StartsWith(trimmed, HttpsPrefix)
             THEN <<[type |-> "image", url |-> trimmed]>> \o rest
             ELSE <<[type |-> "localImage", path |-> trimmed]>> \o rest

\* the input of the turn: the trimmed text, if any, then the images
turn_input(text, images) ==
    (IF Trim(text) # <<>> THEN <<[type |-> "text", text |-> Trim(text)]>> ELSE <<>>)
    \o (IF images.some THEN image_inputs(images.v) ELSE <<>>)

\* get_session, the policies, the input and the params of "turn/start"
sm_session(c) ==
    /\ pc[c] = "sm_session" /\ lock_sessions = 0
    /\ IF loc[c].arg \notin DOMAIN sessions
       THEN Return(c, loc[c].id, Err("workspace not connected"))
       ELSE LET session == procs[sessions[loc[c].arg]]
                a == loc[c].args
                access_mode == AccessModeOrCurrent(a.access_mode)
                input == turn_input(a.text, a.images)
            IN  IF input = <<>>
                THEN Return(c, loc[c].id, Err("empty user message"))
                ELSE Goto(c, "sm_request",
                          [loc[c] EXCEPT !.held = sessions[loc[c].arg],
                                         !.turn = [threadId |-> a.thread_id,
                                                   input |-> input,
                                                   cwd |-> session.path,
                                                   approvalPolicy |-> approval_policy(access_mode),
                                                   sandboxPolicy |->
                                                       sandbox_policy(access_mode, session.path),
                                                   model |-> a.model,
                                                   effort |-> a.effort]])
    /\ UNCHANGED <<opFrame, daemonVars>>

\* session.send_request("turn/start", params).await: the subprocess answers,
\* or the request fails
sm_request(c) ==
    /\ pc[c] = "sm_request"
    /\ \/ Return(c, loc[c].id, Ok("turn"))
       \/ Return(c, loc[c].id, Err("request failed"))
    /\ UNCHANGED <<opFrame, daemonVars>>

(***************************************************************************)
(* get_app_settings and DaemonState::update_app_settings.                  *)
(***************************************************************************)
\* the operation returned Ok with the AppSettings
ReturnApp(c, id, r, app) ==
    /\ out' = out_send(out, c, ReplyTo(id, r))
    /\ pc' = [pc EXCEPT ![c] = "read"]
    /\ loc' = [loc EXCEPT ![c] = [Loc0 EXCEPT !.ret = r, !.app = app]]

\* state.app_settings.lock().await, then the settings as a value
as_get(c) ==
    /\ pc[c] = "as_get"
    /\ ReturnApp(c, loc[c].id, Ok("settings"), app_settings)
    /\ UNCHANGED <<opFrame, daemonVars>>

\* write_settings(&self.settings_path, &settings)?
as_write(c) ==
    /\ pc[c] = "as_write"
    /\ \/ /\ settings_file' = write_settings(settings_file, loc[c].app)
          /\ Goto(c, "as_store", loc[c])
       \/ /\ UNCHANGED settings_file
          /\ Return(c, loc[c].id, Err("write failed"))
    /\ UNCHANGED <<connFrame, workspaces, sessions, lock_sessions, lock_workspaces, stored, app_settings,
                   procs, fs, nextId>>

\* self.app_settings.lock().await; *current = settings.clone()
as_store(c) ==
    /\ pc[c] = "as_store"
    /\ app_settings' = loc[c].app
    /\ ReturnApp(c, loc[c].id, Ok("settings"), loc[c].app)
    /\ UNCHANGED <<connFrame, workspaces, sessions, lock_sessions, lock_workspaces, stored, settings_file,
                   procs, fs, nextId>>

\* the daemon stops and main runs again: DaemonState::load reads the two
\* files; the connections, the sessions and the channel of the old process
\* are gone
Restart ==
    /\ \E c \in Conns : status[c] # "none"
    /\ workspaces' = LoadWorkspaces(stored)
    /\ app_settings' = LoadSettings(settings_file)
    /\ sessions' = EmptyMap
    /\ lock_sessions' = 0
    /\ lock_workspaces' = 0
    /\ status' = [c \in Conns |-> "none"]
    /\ authenticated' = [c \in Conns |-> FALSE]
    /\ events_task' = [c \in Conns |-> "none"]
    /\ rx' = [c \in Conns |-> 0]
    /\ out' = [c \in Conns |-> <<>>]
    /\ wrote' = [c \in Conns |-> 0]
    /\ write_task' = [c \in Conns |-> "running"]
    /\ pc' = [c \in Conns |-> "read"]
    /\ loc' = [c \in Conns |-> Loc0]
    /\ bus' = <<>>
    /\ UNCHANGED <<token, nlines, lastline, stored, settings_file, procs, fs, nextId>>

(***************************************************************************)
(* DaemonState::list_workspaces and sort_workspaces.                       *)
(***************************************************************************)
\* the characters of the names, in the order of their bytes
AsciiOrder ==
    <<" ", "-", ".", "/", "0", "1", "2", "3", "4", "5", "6", "7", "8", "9",
      "A", "B", "C", "D", "E", "F", "G", "H", "I", "J", "K", "L", "M", "N", "O", "P", "Q", "R",
      "S", "T", "U", "V", "W", "X", "Y", "Z", "_",
      "a", "b", "c", "d", "e", "f", "g", "h", "i", "j", "k", "l", "m", "n", "o", "p", "q", "r",
      "s", "t", "u", "v", "w", "x", "y", "z">>
Byte(ch) == CHOOSE i \in 1..Len(AsciiOrder) : AsciiOrder[i] = ch

\* Ord::cmp on sequences of numbers: "lt", "eq", "gt"
RECURSIVE CmpNums(_, _)
CmpNums(a, b) ==
    IF a = <<>> /\ b = <<>> THEN "eq"
    ELSE IF a = <<>> THEN "lt"
    ELSE IF b = <<>> THEN "gt"
    ELSE IF Head(a) < Head(b) THEN "lt"
    ELSE IF Head(a) > Head(b) THEN "gt"
    ELSE CmpNums(Tail(a), Tail(b))
\* String::cmp: by bytes
CmpStr(a, b) == CmpNums([i \in 1..Len(a) |-> Byte(a[i])], [i \in 1..Len(b) |-> Byte(b[i])])

\* sort_order.unwrap_or(u32::MAX)
OrderOrMax(info) ==
    IF info.settings.sort_order = NoOrder THEN U32Max ELSE info.settings.sort_order

\* the comparator of sort_workspaces
CompareWorkspaces(a, b) ==
    IF OrderOrMax(a) # OrderOrMax(b)
    THEN CmpNums(OrderOrMax(a), OrderOrMax(b))
    ELSE CmpStr(a.name, b.name)

\* sort_by on the values of the map, which come in any order: every
\* arrangement of the infos that the comparator does not contradict
sort_workspaces(infos) ==
    {l \in [1..Cardinality(infos) -> infos] :
        /\ \A i, j \in DOMAIN l : i # j => l[i] # l[j]
        /\ \A i, j \in DOMAIN l : i < j => CompareWorkspaces(l[j], l[i]) # "lt"}

\* self.workspaces.lock().await, then self.sessions.lock().await: with the
\* sessions mutex free the list is built at once, otherwise the task waits for
\* it with the workspaces mutex in its hands
lw_list(c) ==
    /\ pc[c] = "lw_list" /\ lock_workspaces = 0
    /\ IF lock_sessions = 0
       THEN /\ \E l \in sort_workspaces({WorkspaceInfo(workspaces[w], w \in DOMAIN sessions) :
                                               w \in DOMAIN workspaces}) :
                 ReturnList(c, loc[c].id, Ok("workspaces"), l)
            /\ UNCHANGED lock_workspaces
       ELSE /\ lock_workspaces' = c
            /\ Goto(c, "lw_sessions", loc[c])
    /\ UNCHANGED <<opFrame, workspaces, sessions, lock_sessions, stored, procs, fs, nextId>>

\* the sessions mutex is granted: the list is built and both guards are dropped
lw_sessions(c) ==
    /\ pc[c] = "lw_sessions" /\ lock_sessions = 0
    /\ \E l \in sort_workspaces({WorkspaceInfo(workspaces[w], w \in DOMAIN sessions) :
                                    w \in DOMAIN workspaces}) :
         ReturnList(c, loc[c].id, Ok("workspaces"), l)
    /\ lock_workspaces' = 0
    /\ UNCHANGED <<opFrame, workspaces, sessions, lock_sessions, stored, procs, fs, nextId>>

ListWorkspacesStep(c) == lw_list(c) \/ lw_sessions(c)

(***************************************************************************)
(* handle_rpc_request: parameter extraction and the start of an operation. *)
(***************************************************************************)
\* parse_optional_string
parse_optional_string(value, key) ==
    IF JIsStr(JGet(value, key)) THEN JGet(value, key).s ELSE None

\* parse_optional_string_array: the items that are no strings are dropped
parse_optional_string_array(value, key) ==
    IF JGet(value, key).k = "arr"
    THEN LET strs == SelectSeq(JGet(value, key).a, JIsStr)
         IN  [some |-> TRUE, v |-> [i \in 1..Len(strs) |-> strs[i].s]]
    ELSE [some |-> FALSE, v |-> <<>>]

Dispatch(c, id, method, params) ==
    LET l0 == [Loc0 EXCEPT !.id = id]
        pid == parse_string(params, "id")
        ppath == parse_string(params, "path")
        pparent == parse_string(params, "parentId")
        pbranch == parse_string(params, "branch")
        psettings == settings_from_value(JGet(params, "settings"))
        pworkspace == parse_string(params, "workspaceId")
        pthread == parse_string(params, "threadId")
        ptext == parse_string(params, "text")
        papp == AppSettingsFromJson(JGet(params, "settings"))
    IN
    CASE method = "ping" ->
           ReturnNow(c, id, Ok("ok")) /\ UNCHANGED nextId
      [] method = "add_workspace" ->
           IF ~ppath.ok
           THEN ReturnNow(c, id, Err(ppath.v)) /\ UNCHANGED nextId
           ELSE /\ nextId' = nextId + 1
                /\ Goto(c, "aw_spawn",
                        [l0 EXCEPT !.entry = MainEntry(Id(nextId + 1), WorkspaceName(ppath.v),
                                                       MainPath(ppath.v),
                                                       parse_optional_string(params, "codex_bin"))])
      [] method = "add_worktree" ->
           (IF ~pparent.ok THEN ReturnNow(c, id, Err(pparent.v))
            ELSE IF ~pbranch.ok THEN ReturnNow(c, id, Err(pbranch.v))
            ELSE IF Trim(pbranch.v) = <<>>
            THEN ReturnNow(c, id, Err("Branch name is required."))
            ELSE Goto(c, "wt_parent", [l0 EXCEPT !.arg = pparent.v, !.branch = Trim(pbranch.v)]))
           /\ UNCHANGED nextId
      [] method = "connect_workspace" ->
           (IF pid.ok THEN Goto(c, "cw_check", [l0 EXCEPT !.arg = pid.v])
            ELSE ReturnNow(c, id, Err(pid.v)))
           /\ UNCHANGED nextId
      [] method = "remove_workspace" ->
           (IF pid.ok THEN Goto(c, "rw_snapshot", [l0 EXCEPT !.arg = pid.v])
            ELSE ReturnNow(c, id, Err(pid.v)))
           /\ UNCHANGED nextId
      [] method = "remove_worktree" ->
           (IF pid.ok THEN Goto(c, "rt_snapshot", [l0 EXCEPT !.arg = pid.v])
            ELSE ReturnNow(c, id, Err(pid.v)))
           /\ UNCHANGED nextId
      [] method = "list_workspaces" ->
           Goto(c, "lw_list", l0) /\ UNCHANGED nextId
      [] method = "update_workspace_settings" ->
           (IF ~pid.ok THEN ReturnNow(c, id, Err(pid.v))
            ELSE IF ~psettings.ok THEN ReturnNow(c, id, Err(psettings.v))
            ELSE Goto(c, "us_update", [l0 EXCEPT !.arg = pid.v, !.settings = psettings.settings]))
           /\ UNCHANGED nextId
      [] method = "update_workspace_codex_bin" ->
           (IF ~pid.ok THEN ReturnNow(c, id, Err(pid.v))
            ELSE Goto(c, "ub_update",
                      [l0 EXCEPT !.arg = pid.v, !.bin = parse_optional_string(params, "codex_bin")]))
           /\ UNCHANGED nextId
      [] method = "get_app_settings" ->
           Goto(c, "as_get", l0) /\ UNCHANGED nextId
      [] method = "update_app_settings" ->
           (IF ~papp.ok THEN ReturnNow(c, id, Err("invalid settings"))
            ELSE Goto(c, "as_write", [l0 EXCEPT !.app = papp.v]))
           /\ UNCHANGED nextId
      [] method = "send_user_message" ->
           (IF ~pworkspace.ok THEN ReturnNow(c, id, Err(pworkspace.v))
            ELSE IF ~pthread.ok THEN ReturnNow(c, id, Err(pthread.v))
            ELSE IF ~ptext.ok THEN ReturnNow(c, id, Err(ptext.v))
            ELSE Goto(c, "sm_session",
                      [l0 EXCEPT !.arg = pworkspace.v,
                                 !.args = [thread_id |-> pthread.v,
                                           text |-> ptext.v,
                                           model |-> parse_optional_string(params, "model"),
                                           effort |-> parse_optional_string(params, "effort"),
                                           access_mode |->
                                               parse_optional_string(params, "accessMode"),
                                           images |->
                                               parse_optional_string_array(params, "images")]]))
           /\ UNCHANGED nextId
      [] OTHER ->
           ReturnNow(c, id, Err("unknown method: " \o method)) /\ UNCHANGED nextId

(***************************************************************************)
(* handle_client: one line of the read loop.                               *)
(***************************************************************************)
\* (mutant) the gate lets "ping" through
UnauthorizedPingOpen(auth, method) == ~auth /\ method \notin {"auth", "ping"}

\* the gate of an Unauthenticated connection: anything but "auth" is refused
Unauthorized(auth, method) == ~auth /\ method # "auth"

\* (mutant) a missing token counts as a match
TokenMatchesOrMissing(expected, params) ==
    parse_auth_token(params) = None \/ UnwrapOrDefault(expected) = parse_auth_token(params)

\* expected == provided, both unwrapped to "" when absent
TokenMatches(expected, params) ==
    UnwrapOrDefault(expected) = UnwrapOrDefault(parse_auth_token(params))

\* (mutant) a line that does not parse is answered with an error
ParseErrorReplies(c) ==
    /\ out' = out_send(out, c, [t |-> "error", id |-> 0, msg |-> "parse error", ev |-> 0])
    /\ UNCHANGED <<authenticated, events_task, rx, pc, loc, nextId>>

\* (mutant) an "auth" is handled as an authentication whatever the connection is
InAuthBranchAnyAuth(auth, method) == ~auth \/ method = "auth"

\* the rest of the `if !authenticated` block, past its test of the method
InAuthBranch(auth, method) == ~auth

\* serde_json::from_str failed: `continue`
ParseError(c) == UNCHANGED <<authenticated, events_task, rx, out, pc, loc, nextId>>

HandleLine(c, m) ==
    IF m.k = "bad"
    THEN ParseError(c)
    ELSE IF Unauthorized(authenticated[c], ReqMethod(m))
    THEN /\ out' = out_send(out, c, build_error_response(ReqId(m), "unauthorized"))
         /\ UNCHANGED <<authenticated, events_task, rx, pc, loc, nextId>>
    ELSE IF InAuthBranch(authenticated[c], ReqMethod(m))
    THEN IF ~TokenMatches(token, ReqParams(m))
         THEN /\ out' = out_send(out, c, build_error_response(ReqId(m), "invalid token"))
              /\ UNCHANGED <<authenticated, events_task, rx, pc, loc, nextId>>
         ELSE /\ authenticated' = [authenticated EXCEPT ![c] = TRUE]
              /\ out' = out_send(out, c, build_result_response(ReqId(m), "ok"))
              /\ events_task' = [events_task EXCEPT ![c] = "running"]
              /\ rx' = [rx EXCEPT ![c] = Subscribe]
              /\ UNCHANGED <<pc, loc, nextId>>
    ELSE /\ Dispatch(c, ReqId(m), ReqMethod(m), ReqParams(m))
         /\ UNCHANGED <<authenticated, events_task, rx>>

\* lines.next_line() returned one of `lines`
ReadLine(c, lines, budget) ==
    /\ status[c] = "open" /\ pc[c] = "read"
    /\ nlines < budget
    /\ nlines' = nlines + 1
    /\ \E i \in 1..Len(lines) :
         /\ lastline' = [c |-> c, m |-> lines[i]]
         /\ HandleLine(c, lines[i])
    /\ UNCHANGED <<token, status, wrote, write_task, bus,
                   workspaces, sessions, lock_sessions, lock_workspaces, stored, app_settings, settings_file,
                   procs, fs>>

(***************************************************************************)
(* The lines the clients send.                                             *)
(***************************************************************************)
Req(id, method, params) == JObj([id |-> JNum(id), method |-> JStr(method), params |-> params])
Notify(method, params) == JObj([method |-> JStr(method), params |-> params])

AuthLines ==
    << BadLine,
       Req(1, "auth", JStr(Secret)),
       Req(1, "auth", JObj([token |-> JStr(Secret)])),
       Req(1, "auth", JStr("wrong")),
       Req(1, "auth", JObj([token |-> JNum(7)])),
       Req(1, "ping", JNull),
       Notify("ping", JNull),
       Req(1, "connect_workspace", JObj([id |-> JStr(Id(1))])) >>

BusLines ==
    << Req(1, "auth", JStr(Secret)),
       Req(1, "connect_workspace", JObj([id |-> JStr(Id(1))])) >>

Init ==
    /\ token \in {None, Secret}
    /\ InitConns
    /\ InitDaemon

ConnectWorkspaceStep(c) == cw_check(c) \/ cw_entry(c) \/ cw_spawn(c) \/ cw_insert(c)

(***************************************************************************)
(* SpecAuth: the authentication gate of handle_client.                     *)
(***************************************************************************)
NextAuth ==
    \/ \E c \in Conns : Accept(c)
    \/ \E c \in Conns : ReadLine(c, AuthLines, MaxLines)
    \/ \E c \in Conns : ConnectWorkspaceStep(c)
    \/ \E c \in Conns : WriteFail(c)
    \/ \E c \in Conns : Close(c)

SpecAuth == Init /\ [][NextAuth]_vars

(***************************************************************************)
(* Spec: the event bus and the connections' subscriptions.                 *)
(***************************************************************************)
Next ==
    \/ \E c \in Conns : Accept(c)
    \/ \E c \in Conns : ReadLine(c, BusLines, MaxBusLines)
    \/ \E c \in Conns : ConnectWorkspaceStep(c)
    \/ \E c \in Conns : WriteFail(c)
    \/ \E c \in Conns : Close(c)
    \/ \E c \in Conns : ForwardEvents(c)
    \/ \E kind \in EventKinds : Emit(kind)

Spec == Init /\ [][Next]_vars

(***************************************************************************)
(* Claims about the authentication gate (SpecAuth).                        *)
(***************************************************************************)
\* the connection and the decoded line of a step that reads a line
Reader == lastline'.c
Line == lastline'.m
ReadsLine == nlines' # nlines
\* what the queue of connection c holds after msg was sent on it
Enqueued(c, msg) ==
    IF write_task[c] = "running" THEN [out EXCEPT ![c] = Append(@, msg)] ELSE out
ErrorMsg(id, message) == [t |-> "error", id |-> id, msg |-> message, ev |-> 0]
ResultMsg(id, result) == [t |-> "result", id |-> id, msg |-> result, ev |-> 0]

\* C1: on a token-protected daemon a request other than "auth" read on an
\* Unauthenticated connection is answered "unauthorized" (when it has an id),
\* starts no operation, and changes neither the auth state nor the daemon state.
C1_UnauthorizedGate ==
    [][(ReadsLine /\ token # None /\ ~authenticated[Reader]
          /\ Line.k # "bad" /\ ReqMethod(Line) # "auth")
       => /\ out' = (IF ReqId(Line) # NoId
                     THEN Enqueued(Reader, ErrorMsg(ReqId(Line), "unauthorized"))
                     ELSE out)
          /\ pc'[Reader] = "read"
          /\ loc' = loc
          /\ authenticated' = authenticated
          /\ events_task' = events_task
          /\ UNCHANGED <<daemonVars, bus>>]_vars

C1_Witness ==
    /\ token # None
    /\ \E c \in Conns :
         /\ status[c] = "open" /\ ~authenticated[c]
         /\ lastline.c = c /\ ReqMethod(lastline.m) = "connect_workspace"
         /\ Len(out[c]) = 2
         /\ out[c][2] = ErrorMsg(1, "unauthorized")
         /\ procs = <<>>

\* the token an "auth" request provides: its bare string params, or the string
\* field "token" of its object params
ProvidedToken(m) ==
    LET p == ReqParams(m) IN
    IF p.k = "str" THEN p.s
    ELSE IF p.k = "obj" /\ "token" \in DOMAIN p.o /\ p.o["token"].k = "str" THEN p.o["token"].s
    ELSE None

\* C2: an "auth" whose token is not the configured one is answered "invalid
\* token", leaves the connection Unauthenticated with no event subscription; and
\* whatever failures came before, an "auth" with the right token succeeds.
C2_InvalidTokenRetry ==
    [][(ReadsLine /\ token # None /\ ~authenticated[Reader]
          /\ Line.k # "bad" /\ ReqMethod(Line) = "auth")
       => IF ProvidedToken(Line) # token
          THEN /\ out' = (IF ReqId(Line) # NoId
                          THEN Enqueued(Reader, ErrorMsg(ReqId(Line), "invalid token"))
                          ELSE out)
               /\ ~authenticated'[Reader]
               /\ events_task'[Reader] = "none"
          ELSE /\ authenticated'[Reader]
               /\ out' = (IF ReqId(Line) # NoId
                          THEN Enqueued(Reader, ResultMsg(ReqId(Line), "ok"))
                          ELSE out)]_vars

C2_Witness ==
    \E c \in Conns :
      /\ status[c] = "open" /\ authenticated[c] /\ token # None
      /\ out[c] = <<ErrorMsg(1, "invalid token"), ErrorMsg(1, "invalid token"), ResultMsg(1, "ok")>>

\* C3: an Authenticated connection stays Authenticated as long as it is open,
\* a right "auth" makes it Authenticated, and without a configured token every
\* open connection is Authenticated.
C3_AuthMonotone ==
    /\ [](token = None => \A c \in Conns : status[c] = "open" => authenticated[c])
    /\ [][\A c \in Conns :
            /\ (authenticated[c] /\ status'[c] = "open") => authenticated'[c]
            /\ (ReadsLine /\ Reader = c /\ ~authenticated[c] /\ Line.k # "bad"
                  /\ ReqMethod(Line) = "auth" /\ ProvidedToken(Line) = token)
               => authenticated'[c]]_vars

C3_Witness ==
    \E c \in Conns :
      /\ token # None /\ status[c] = "open" /\ authenticated[c]
      /\ Len(out[c]) = 3
      /\ out[c][1] = ResultMsg(1, "ok")
      /\ out[c][3] = ErrorMsg(1, "unknown method: auth")

(***************************************************************************)
(* Claims about event delivery (Spec, SpecLive).                           *)
(***************************************************************************)
\* the positions of the notifications in the queue of connection c
NotifAt(c) == {k \in 1..Len(out[c]) : out[c][k].t = "notif"}
\* a notification of the i-th event was enqueued on connection c
Delivered(c, i) == \E k \in NotifAt(c) : out[c][k].ev = i

\* C4: every notification enqueued on a connection is for an event that was
\* emitted when that connection was already Authenticated; an Unauthenticated
\* connection has no notification at all.
C4_NoEventBeforeAuth ==
    \A c \in Conns : \A k \in NotifAt(c) :
        /\ authenticated[c]
        /\ c \in bus[out[c][k].ev].authed

C4_Witness ==
    \E c \in Conns :
      /\ token # None /\ status[c] = "open"
      /\ Len(bus) = 2
      /\ c \notin bus[1].authed
      /\ Delivered(c, 2)

NextLive ==
    \/ \E c \in Conns : Accept(c)
    \/ \E c \in Conns : ReadLine(c, BusLines, MaxLiveLines)
    \/ \E c \in Conns : ConnectWorkspaceStep(c)
    \/ \E c \in Conns : WriteFail(c)
    \/ \E c \in Conns : Close(c)
    \/ \E c \in Conns : ForwardEvents(c)
    \/ \E kind \in EventKinds : Emit(kind)

\* the runtime polls every spawned events_task that has an event to forward
SpecLive ==
    Init /\ [][NextLive]_vars /\ \A c \in Conns : WF_vars(ForwardEvents(c))

\* the i-th event has left the bounded buffer of the bus
Overwritten(i) == i <= Len(bus) - BusCapacity

\* C5: an event emitted while connection c was Authenticated is eventually
\* enqueued on c, unless c closes (or its writer fails) or c lagged so far that
\* the event left the buffer before c read it.
C5_EventuallyDelivered ==
    \A c \in Conns : \A i \in 1..MaxEvents :
        (Len(bus) >= i /\ c \in bus[i].authed)
          ~> (\/ Delivered(c, i)
              \/ status[c] # "open"
              \/ write_task[c] # "running"
              \/ Overwritten(i))

\* a connection that sent no request got the notification of an event
C5_Witness ==
    \E c \in Conns :
      /\ status[c] = "open" /\ lastline.c # c /\ Len(out[c]) = 1
      /\ Delivered(c, 1)
      /\ \E d \in Conns \ {c} : loc[d].ret.ok

\* C6: no queue holds two notifications of the same emitted event.
C6_AtMostOnce ==
    \A c \in Conns : \A j, k \in NotifAt(c) : j < k => out[c][j].ev # out[c][k].ev

C6_Witness ==
    \E c \in Conns : Delivered(c, 1) /\ Delivered(c, 2)

(***************************************************************************)
(* SpecReg: the workspace registry and the session map under requests of   *)
(* several connections (no token configured).                              *)
(***************************************************************************)
BranchName == <<"a", "/", "b">>

\* another branch with the same sanitized name, and a blank one
BranchTwin == <<"a", "-", "b">>
BranchBlank == <<" ", " ">>
\* an id no entry ever has
AbsentId == "w0"

RegLines ==
    << Req(1, "add_worktree", JObj([parentId |-> JStr(Id(1)), branch |-> JStr(BranchName)])),
       Req(1, "remove_workspace", JObj([id |-> JStr(Id(1))])),
       Req(1, "remove_worktree", JObj([id |-> JStr(Id(2))])),
       Req(1, "connect_workspace", JObj([id |-> JStr(Id(1))])),
       Req(1, "add_worktree", JObj([parentId |-> JStr(Id(1)), branch |-> JStr(BranchTwin)])),
       Req(1, "add_worktree", JObj([parentId |-> JStr(Id(2)), branch |-> JStr(BranchName)])),
       Req(1, "add_worktree", JObj([parentId |-> JStr(AbsentId), branch |-> JStr(BranchName)])),
       Req(1, "add_worktree", JObj([parentId |-> JStr(AbsentId), branch |-> JStr(BranchBlank)])),
       Req(1, "remove_workspace", JObj([id |-> JStr(Id(2))])),
       Req(1, "remove_worktree", JObj([id |-> JStr(Id(1))])) >>

InitReg ==
    /\ token = None
    /\ InitConns
    /\ InitDaemon

AddWorktreeStep(c) == wt_parent(c) \/ wt_git(c) \/ wt_spawn(c) \/ wt_insert(c) \/ wt_session(c)

RemoveWorkspaceStep(c) ==
    \/ rw_snapshot(c) \/ rw_child(c) \/ rw_child_kill(c) \/ rw_child_git(c)
    \/ rw_prune(c) \/ rw_own(c) \/ rw_own_kill(c) \/ rw_commit(c)

RemoveWorktreeStep(c) ==
    rt_snapshot(c) \/ rt_session(c) \/ rt_kill(c) \/ rt_git(c) \/ rt_prune(c) \/ rt_commit(c)

NextReg ==
    \/ \E c \in Conns : Accept(c)
    \/ \E c \in Conns : ReadLine(c, RegLines, MaxRegLines)
    \/ \E c \in Conns : ConnectWorkspaceStep(c)
    \/ \E c \in Conns : AddWorktreeStep(c)
    \/ \E c \in Conns : RemoveWorkspaceStep(c)
    \/ \E c \in Conns : RemoveWorktreeStep(c)
    \/ \E c \in Conns : Close(c)

SpecReg == InitReg /\ [][NextReg]_vars

(***************************************************************************)
(* Claims about the registry and the session map (SpecReg).                *)
(***************************************************************************)
\* the parent_id of entry e is the id of a Main entry of the registry
ParentIsMain(e) ==
    /\ e.parent_id # None
    /\ e.parent_id \in DOMAIN workspaces
    /\ workspaces[e.parent_id].kind = "main"

\* C7: in every reachable state of the registry an entry has kind Worktree
\* exactly when its parent_id is present and is the id of a Main entry that is
\* in the registry.
C7_WorktreeIffParentIsMain ==
    \A w \in DOMAIN workspaces : is_worktree(workspaces[w]) <=> ParentIsMain(workspaces[w])

\* connection c's remove_workspace returns success in this step
RemoveWorkspaceSucceeds(c) ==
    pc[c] = "rw_commit" /\ pc'[c] = "read" /\ loc'[c].ret.ok

\* C8: when remove_workspace(parent) returns success, the parent and every
\* entry whose parent_id is the parent are absent from the registry and no
\* remaining entry has a parent_id that is not the id of an entry.
C8_CascadeRemovesChildren ==
    [][\A c \in Conns : RemoveWorkspaceSucceeds(c) =>
         /\ loc[c].arg \notin DOMAIN workspaces'
         /\ \A w \in DOMAIN workspaces' :
              /\ workspaces'[w].parent_id # loc[c].arg
              /\ workspaces'[w].parent_id # None
                   => workspaces'[w].parent_id \in DOMAIN workspaces']_vars

\* connection c's connect_workspace passes its contains_key check in this step
\* with a session present under its id
ConnectsConnected(c) ==
    pc[c] = "cw_check" /\ pc'[c] # "cw_check" /\ loc[c].arg \in DOMAIN sessions

\* C9: connect_workspace(id) on an id that has a session returns success, spawns
\* no subprocess and leaves the session map (and the registry) as they are, so
\* any number of such calls in a row leave what one call leaves.
C9_ConnectIdempotent ==
    [][\A c \in Conns : ConnectsConnected(c) =>
         /\ pc'[c] = "read" /\ loc'[c].ret = Ok("ok")
         /\ out'[c] = out_send(out, c, build_result_response(loc[c].id, "ok"))[c]
         /\ sessions' = sessions /\ procs' = procs
         /\ workspaces' = workspaces /\ stored' = stored]_vars

\* one connection made three calls in a row: the first spawned the only
\* subprocess, the two others found the session
C9_Witness ==
    \E c \in Conns :
      /\ pc[c] = "read" /\ loc[c].ret = Ok("ok")
      /\ Len(out[c]) = 3 /\ \A k \in 1..3 : out[c][k].t = "result"
      /\ Len(procs) = 1 /\ procs[1].ws = Id(1) /\ procs[1].alive
      /\ sessions = Put(EmptyMap, Id(1), 1)

\* the handles in the session map
Handles(m) == {m[id] : id \in DOMAIN m}
\* the steps at which an operation holds a removed handle and kills it
KillSteps == {"rw_child_kill", "rw_own_kill", "rt_kill"}

\* C10: a handle leaves the session map (removed or replaced) only into the
\* hands of an operation that terminates its subprocess before it lets the
\* handle go.
C10_RemovalTerminates ==
    [][/\ \A h \in Handles(sessions) \ Handles(sessions') :
            \E c \in Conns : pc'[c] \in KillSteps /\ loc'[c].held = h
       /\ \A c \in Conns :
            (pc[c] \in KillSteps /\ pc'[c] # pc[c]) => ~procs'[loc[c].held].alive]_vars

(***************************************************************************)
(* SpecRpc: requests with and without an id, malformed lines.              *)
(***************************************************************************)
RpcLines ==
    << BadLine,
       Req(1, "auth", JStr(Secret)),
       Req(1, "connect_workspace", JObj([id |-> JStr(Id(1))])),
       Req(2, "remove_worktree", JObj([id |-> JStr(Id(1))])),
       Req(-1, "ping", JNull),
       Notify("connect_workspace", JObj([id |-> JStr(Id(1))])),
       Notify("remove_workspace", JObj([id |-> JStr(Id(1))])),
       Notify("remove_worktree", JObj([id |-> JStr(Id(1))])) >>

NextRpc ==
    \/ \E c \in Conns : Accept(c)
    \/ \E c \in Conns : ReadLine(c, RpcLines, MaxRpcLines)
    \/ \E c \in Conns : ConnectWorkspaceStep(c)
    \/ \E c \in Conns : rw_snapshot(c)
    \/ \E c \in Conns : rw_prune(c)
    \/ \E c \in Conns : rw_own(c)
    \/ \E c \in Conns : rw_own_kill(c)
    \/ \E c \in Conns : rw_commit(c)
    \/ \E c \in Conns : rt_snapshot(c)
    \/ \E c \in Conns : WriteFail(c)
    \/ \E c \in Conns : Close(c)

SpecRpc == Init /\ [][NextRpc]_vars

(***************************************************************************)
(* Claims about replies (SpecRpc).                                         *)
(***************************************************************************)
\* connection c's request is answered at once by the line it reads in this step
RepliesAtOnce(c) == ReadsLine /\ Reader = c /\ Line.k # "bad" /\ pc'[c] = "read"
\* connection c's operation returns in this step
Returns(c) == pc[c] # "read" /\ pc'[c] = "read"
\* the request of connection c is finished in this step
Completes(c) == RepliesAtOnce(c) \/ Returns(c)
\* the id handle_client read in the request that finishes (NoId: none)
CompletedId(c) == IF Returns(c) THEN loc[c].id ELSE ReqId(Line)
\* the replies in a queue
Replies(q) == SelectSeq(q, LAMBDA m : m.t \in {"result", "error"})
IsReply(m) == m.t \in {"result", "error"}

\* one reply with the given id is appended to the queue of connection c
AppendsReply(c, id) ==
    /\ Len(out'[c]) = Len(out[c]) + 1
    /\ SubSeq(out'[c], 1, Len(out[c])) = out[c]
    /\ IsReply(out'[c][Len(out'[c])])
    /\ out'[c][Len(out'[c])].id = id

\* C11 as stated: a request carrying an integer id that is answered at once gets
\* one reply with that id on its connection.
C11_AnyIntegerId ==
    [][\A c \in Conns :
         (RepliesAtOnce(c) /\ JGet(Line, "id").k = "num" /\ SendOk(c))
           => AppendsReply(c, JGet(Line, "id").n)]_vars

\* the request that finishes on connection c is owed a reply
OwedReply(c) == Completes(c) /\ CompletedId(c) # NoId /\ SendOk(c)

\* C11 (amended): a request whose id is an unsigned integer gets, when it
\* finishes and while the connection's writer runs, exactly one reply: a result
\* or an error with the same id, on the connection that sent it and on no
\* other; no other step adds a reply to any queue.
C11_OneReplyToSender ==
    [][/\ \A c \in Conns :
            OwedReply(c) => /\ AppendsReply(c, CompletedId(c))
                            /\ \A d \in Conns \ {c} : out'[d] = out[d]
       /\ (\A c \in Conns : ~OwedReply(c))
            => \A c \in Conns : Len(Replies(out'[c])) <= Len(Replies(out[c]))]_vars

\* a request of one connection failed, another connection's succeeded, each
\* has its own reply
C11_Witness ==
    \E c, d \in Conns :
      /\ c # d
      /\ out[c] = <<[t |-> "error", id |-> 2, msg |-> "Not a worktree workspace.", ev |-> 0]>>
      /\ out[d] = <<[t |-> "result", id |-> 1, msg |-> "ok", ev |-> 0]>>
      /\ Id(1) \in DOMAIN sessions

\* connection c takes a step of an operation started by a request without id
StepsWithoutId(c) ==
    pc[c] # "read" /\ loc[c].id = NoId /\ (pc'[c] # pc[c] \/ loc'[c] # loc[c])

\* C12: a request without an id on an Authenticated connection starts its
\* operation as a request with an id does, and neither the line nor any step of
\* the operation, successful or not, enqueues a message on any connection.
C12_NoIdNoReply ==
    [][\A c \in Conns :
         /\ (ReadsLine /\ Reader = c /\ authenticated[c] /\ Line.k # "bad"
               /\ ReqId(Line) = NoId)
              => /\ out' = out
                 /\ ReqMethod(Line) = "remove_workspace"
                      => pc'[c] = "rw_snapshot" /\ loc'[c].arg = Id(1)
                 /\ ReqMethod(Line) = "remove_worktree"
                      => pc'[c] = "rt_snapshot" /\ loc'[c].arg = Id(1)
                 /\ ReqMethod(Line) = "connect_workspace"
                      => pc'[c] = "cw_check" /\ loc'[c].arg = Id(1)
         /\ StepsWithoutId(c) => out' = out]_vars

\* remove_workspace sent without an id removed the workspace; a remove_worktree
\* without an id failed; nothing was enqueued anywhere
C12_Witness ==
    /\ token = None
    /\ Id(1) \notin DOMAIN workspaces /\ Id(1) \notin DOMAIN stored
    /\ \A c \in Conns : out[c] = <<>>
    /\ \E c, d \in Conns :
         /\ pc[c] = "read" /\ loc[c].ret = Ok("ok")
         /\ pc[d] = "read" /\ loc[d].ret = Err("workspace not found")

\* C13: a line that is not valid JSON enqueues nothing, changes no daemon
\* state, leaves the connection's auth state and subscription as they are and
\* leaves the connection open and reading, so what follows is processed as if
\* the line had not been sent.
C13_BadJsonIgnored ==
    [][(ReadsLine /\ Line.k = "bad")
         => UNCHANGED <<token, status, authenticated, events_task, rx, out, wrote,
                        write_task, pc, loc, bus, daemonVars>>]_vars

\* an authenticated connection with a live session and a reply in its queue
\* has just sent a malformed line
C13_Witness ==
    \E c \in Conns :
      /\ lastline = [c |-> c, m |-> BadLine]
      /\ token # None /\ status[c] = "open" /\ authenticated[c] /\ pc[c] = "read"
      /\ Len(out[c]) = 2 /\ Id(1) \in DOMAIN sessions

(***************************************************************************)
(* Claims about rejected and colliding worktree requests (SpecReg).        *)
(***************************************************************************)
\* connection c's operation leaves the step `label` in this step
Leaves(c, label) == pc[c] = label /\ pc'[c] # label
\* connection c's operation returns the error `message` in this step
Fails(c, message) == pc'[c] = "read" /\ loc'[c].ret = [ok |-> FALSE, v |-> message]
IsAbsent(id) == id \notin DOMAIN workspaces
HasKind(id, kind) == id \in DOMAIN workspaces /\ workspaces[id].kind = kind

\* C14: remove_workspace on an absent id or on a Worktree and remove_worktree
\* on an absent id or on a Main entry return an error at their first step and
\* leave registry, session map, stored list, subprocesses and worktree
\* directories as they are.
C14_RemoveRejects ==
    [][\A c \in Conns :
         /\ (Leaves(c, "rw_snapshot") /\ IsAbsent(loc[c].arg))
              => Fails(c, "workspace not found") /\ UNCHANGED daemonVars
         /\ (Leaves(c, "rw_snapshot") /\ HasKind(loc[c].arg, "worktree"))
              => Fails(c, "Use remove_worktree for worktree agents.") /\ UNCHANGED daemonVars
         /\ (Leaves(c, "rt_snapshot") /\ IsAbsent(loc[c].arg))
              => Fails(c, "workspace not found") /\ UNCHANGED daemonVars
         /\ (Leaves(c, "rt_snapshot") /\ HasKind(loc[c].arg, "main"))
              => Fails(c, "Not a worktree workspace.") /\ UNCHANGED daemonVars]_vars

\* remove_workspace was refused on the connected worktree w2 and
\* remove_worktree on the main workspace w1
C14_Witness ==
    \E c, d \in Conns :
      /\ loc[c].ret = [ok |-> FALSE, v |-> "Use remove_worktree for worktree agents."]
      /\ loc[d].ret = [ok |-> FALSE, v |-> "Not a worktree workspace."]
      /\ HasKind(Id(2), "worktree") /\ Id(2) \in DOMAIN sessions /\ procs[sessions[Id(2)]].alive

\* the branch of an add_worktree request is blank
BlankBranch(m) ==
    /\ JIsStr(JGet(ReqParams(m), "parentId")) /\ JIsStr(JGet(ReqParams(m), "branch"))
    /\ \A i \in 1..Len(JGet(ReqParams(m), "branch").s) : JGet(ReqParams(m), "branch").s[i] = " "

\* C15: add_worktree fails on a branch that is empty after trimming (whatever
\* the parent), then on a parent_id that is not in the registry, then on a
\* parent that is a Worktree; in each case it returns at that check and
\* registry, sessions, stored list, subprocesses and directories are unchanged.
C15_AddWorktreeRejects ==
    [][\A c \in Conns :
         /\ (ReadsLine /\ Reader = c /\ authenticated[c] /\ Line.k # "bad"
               /\ ReqMethod(Line) = "add_worktree" /\ BlankBranch(Line))
              => Fails(c, "Branch name is required.") /\ UNCHANGED daemonVars
         /\ Leaves(c, "wt_parent") => loc[c].branch # <<>>
         /\ (Leaves(c, "wt_parent") /\ IsAbsent(loc[c].arg))
              => Fails(c, "parent workspace not found") /\ UNCHANGED daemonVars
         /\ (Leaves(c, "wt_parent") /\ HasKind(loc[c].arg, "worktree"))
              => Fails(c, "Cannot create a worktree from another worktree.")
                   /\ UNCHANGED daemonVars]_vars

\* a blank branch under an absent parent was refused for its branch, and a
\* worktree was refused as a parent
C15_Witness ==
    \E c, d \in Conns :
      /\ lastline.c = c /\ BlankBranch(lastline.m)
      /\ JGet(ReqParams(lastline.m), "parentId").s = AbsentId
      /\ loc[c].ret = [ok |-> FALSE, v |-> "Branch name is required."]
      /\ loc[d].ret = [ok |-> FALSE, v |-> "Cannot create a worktree from another worktree."]
      /\ DOMAIN workspaces = {Id(1), Id(2)} /\ DOMAIN fs = {workspaces[Id(2)].path}

\* the WorkspaceInfo of a worktree that connection c's last call returned
ReturnedWorktree(c) == loc[c].ret.ok /\ loc[c].info.id # None /\ loc[c].info.kind = "worktree"

SuffixedLeaf(name, k) == IF k = 1 THEN name ELSE name \o <<"-">> \o Decimal(k)
CleanName(branch) ==
    LET r == [i \in 1..Len(branch) |->
                 IF branch[i] \in AsciiAlnum \cup {"-", "_", "."} THEN branch[i] ELSE "-"]
    IN  TrimMatches(r, {"-"})

ProjPath == << <<"t", "m", "p">>, <<"p">> >>
RootPath == << >>

ListLines ==
    << Req(1, "add_workspace", JObj([path |-> JStr(ProjPath)])),
       Req(1, "add_workspace", JObj([path |-> JStr(RootPath)])),
       Req(1, "add_worktree", JObj([parentId |-> JStr(Id(1)), branch |-> JStr(BranchName)])),
       Req(1, "remove_workspace", JObj([id |-> JStr(Id(1))])),
       Req(1, "remove_workspace", JObj([id |-> JStr(Id(2))])),
       Req(1, "remove_worktree", JObj([id |-> JStr(Id(2))])),
       Req(1, "update_workspace_settings",
           JObj([id |-> JStr(Id(1)), settings |-> JObj([sortOrder |-> JWords(U32Max)])])),
       Req(1, "update_workspace_settings",
           JObj([id |-> JStr(Id(2)), settings |-> JObj([sortOrder |-> JWords(<<0, 0>>)])])),
       Req(1, "update_workspace_codex_bin",
           JObj([id |-> JStr(Id(1)), codex_bin |-> JStr("codex")])),
       Req(1, "list_workspaces", JNull) >>

\* workspaces.json is missing (first run) or holds one Main workspace
InitList ==
    /\ token = None
    /\ InitConns
    /\ stored \in {EmptyMap, write_workspaces(EmptyMap, LoadedWorkspaces)}
    /\ workspaces = LoadWorkspaces(stored)
    /\ settings_file = JAbsent
    /\ app_settings = LoadSettings(settings_file)
    /\ sessions = EmptyMap
    /\ lock_sessions = 0
    /\ lock_workspaces = 0
    /\ procs = <<>>
    /\ fs = EmptyMap
    /\ nextId = 1

AddWorkspaceStep(c) == aw_spawn(c) \/ aw_insert(c) \/ aw_session(c)
UpdateSettingsStep(c) == us_update(c) \/ us_connected(c)
UpdateCodexBinStep(c) == ub_update(c) \/ ub_connected(c)

NextList ==
    \/ \E c \in Conns : Accept(c)
    \/ \E c \in Conns : ReadLine(c, ListLines, MaxListLines)
    \/ \E c \in Conns : AddWorkspaceStep(c)
    \/ \E c \in Conns : AddWorktreeStep(c)
    \/ \E c \in Conns : RemoveWorkspaceStep(c)
    \/ \E c \in Conns : RemoveWorktreeStep(c)
    \/ \E c \in Conns : UpdateSettingsStep(c)
    \/ \E c \in Conns : UpdateCodexBinStep(c)
    \/ \E c \in Conns : ListWorkspacesStep(c)
    \/ \E c \in Conns : Close(c)

SpecList == InitList /\ [][NextList]_vars

(***************************************************************************)
(* Claims about listing, adding and persisting (SpecList).                 *)
(***************************************************************************)
HasOrder(info) == info.settings.sort_order # NoOrder
\* a is not after b by name, by sort_order
NameLeq(a, b) == CmpStr(a.name, b.name) # "gt"
OrderCmp(a, b) == CmpNums(a.settings.sort_order, b.settings.sort_order)

\* C17: every list list_workspaces returns is ordered by sort_order ascending,
\* then by name, and no entry without a sort_order comes before an entry that
\* has one, whatever the sort_order is.
C17_SortedNoneLast ==
    \A c \in Conns : \A i, j \in DOMAIN loc[c].list :
      i < j =>
        LET a == loc[c].list[i]
            b == loc[c].list[j]
        IN  /\ ~(~HasOrder(a) /\ HasOrder(b))
            /\ (HasOrder(a) /\ HasOrder(b))
                 => OrderCmp(a, b) = "lt" \/ (OrderCmp(a, b) = "eq" /\ NameLeq(a, b))
            /\ (~HasOrder(a) /\ ~HasOrder(b)) => NameLeq(a, b)

\* the final segment of a path, "Workspace" when it has none
FinalSegment(dir) ==
    IF dir = <<>> THEN <<"W", "o", "r", "k", "s", "p", "a", "c", "e">> ELSE dir[Len(dir)]

\* C18: add_workspace inserts an entry under an id no entry has; when it
\* succeeds it returns a Main entry without parent_id, connected, named after
\* the final segment of its path ("Workspace" without one), whose session is
\* live; list_workspaces returns exactly the entries of the registry with
\* their connection status, so after an add on an empty registry exactly that
\* entry, connected.
C18_AddWorkspaceResult ==
    [][\A c \in Conns :
         /\ Leaves(c, "aw_insert") => loc[c].entry.id \notin DOMAIN workspaces
         /\ Leaves(c, "aw_session")
              => /\ pc'[c] = "read" /\ loc'[c].ret.ok
                 /\ loc'[c].info.kind = "main" /\ loc'[c].info.parent_id = None
                 /\ loc'[c].info.connected
                 /\ loc'[c].info.name = FinalSegment(loc'[c].info.path.dir)
                 /\ \A w \in DOMAIN workspaces' :
                      workspaces'[w].id = loc'[c].info.id => w = loc'[c].info.id
                 /\ loc'[c].info.id \in DOMAIN sessions'
                 /\ procs'[sessions'[loc'[c].info.id]].alive
         /\ (pc[c] \in {"lw_list", "lw_sessions"} /\ pc'[c] = "read")
              => /\ Len(loc'[c].list) = Cardinality(DOMAIN workspaces)
                 /\ {loc'[c].list[k].id : k \in DOMAIN loc'[c].list} = DOMAIN workspaces
                 /\ \A k \in DOMAIN loc'[c].list :
                      LET i == loc'[c].list[k]
                          e == workspaces[i.id]
                      IN  /\ i.connected = (i.id \in DOMAIN sessions)
                          /\ i.name = e.name /\ i.path = e.path /\ i.kind = e.kind
                          /\ i.parent_id = e.parent_id /\ i.settings = e.settings
                          /\ i.codex_bin = e.codex_bin]_vars

\* add_workspace of /tmp/p on the empty registry, then list_workspaces: the
\* list is that entry, connected
C18_Witness ==
    /\ nlines = 2 /\ DOMAIN workspaces = {Id(2)}
    /\ \E c \in Conns :
         /\ pc[c] = "read" /\ Len(loc[c].list) = 1
         /\ loc[c].list[1].id = Id(2) /\ loc[c].list[1].name = <<"p">>
         /\ loc[c].list[1].kind = "main" /\ loc[c].list[1].connected

\* every request so far was answered, none with an error, and none is running
AllSucceeded ==
    \A c \in Conns :
      /\ pc[c] = "read" /\ status[c] # "closed"
      /\ \A k \in DOMAIN out[c] : out[c][k].t # "error"

\* the entries that the stored document holds
StoredList == [id \in DOMAIN stored |-> WorkspaceEntryFromJson(stored[id]).v]

\* some operation returns an error in this step
SomeFails == \E c \in Conns : pc[c] # "read" /\ pc'[c] = "read" /\ ~loc'[c].ret.ok

\* C19: whenever a step that changes the registry or the stored list does not
\* end in an error, the stored list is the registry; so when every mutation
\* returned success and none is in progress, the stored list holds exactly the
\* entries of the registry with the same fields.
C19_StoredIsRegistry ==
    /\ [](AllSucceeded => StoredList = workspaces)
    /\ [][((workspaces' # workspaces \/ stored' # stored) /\ ~SomeFails)
            => StoredList' = workspaces']_vars

\* a workspace and a worktree were added and the worktree's settings updated
C19_Witness ==
    /\ AllSucceeded /\ nlines = 3
    /\ DOMAIN StoredList = {Id(1), Id(2)}
    /\ StoredList[Id(2)].kind = "worktree"
    /\ StoredList[Id(2)].settings.sort_order = SomeOrder(0, 0)

(***************************************************************************)
(* SpecTurn: send_user_message on a workspace that a client connects.      *)
(***************************************************************************)
Hello == <<"h", "i">>
Blank == <<" ">>
ImageUrl == <<" ">> \o HttpsPrefix \o <<"x">>
ImageFile == <<"/", "p">>

Turn(fields) ==
    Req(1, "send_user_message",
        JObj([workspaceId |-> JStr(Id(1)), threadId |-> JStr("t"), text |-> JStr(Hello)]
             @@ fields))

TurnLines ==
    << Req(1, "connect_workspace", JObj([id |-> JStr(Id(1))])),
       Turn([accessMode |-> JStr("full-access")]),
       Turn([accessMode |-> JStr("read-only"), model |-> JStr("m")]),
       Turn([accessMode |-> JStr("current"), effort |-> JStr("high")]),
       Turn([accessMode |-> JStr("Full-Access")]),
       Turn([accessMode |-> JNum(7)]),
       Turn([accessMode |-> JNull]),
       Turn([images |-> JArr(<<JStr(ImageUrl), JNum(1), JStr(Blank), JStr(ImageFile)>>)]),
       Turn([text |-> JStr(Blank), accessMode |-> JStr("full-access")]),
       Turn([text |-> JStr(Blank), images |-> JArr(<<JStr(ImageFile)>>)]),
       Turn([workspaceId |-> JStr(AbsentId)]),
       Turn([text |-> JNull]) >>

InitTurn ==
    /\ token = None
    /\ InitConns
    /\ InitDaemon

SendUserMessageStep(c) == sm_session(c) \/ sm_request(c)

NextTurn ==
    \/ \E c \in Conns : Accept(c)
    \/ \E c \in Conns : ReadLine(c, TurnLines, MaxTurnLines)
    \/ \E c \in Conns : ConnectWorkspaceStep(c)
    \/ \E c \in Conns : SendUserMessageStep(c)
    \/ \E c \in Conns : Close(c)

SpecTurn == InitTurn /\ [][NextTurn]_vars

(***************************************************************************)
(* Claims about the policies of a turn (SpecTurn).                         *)
(***************************************************************************)
\* send_user_message starts a turn: it found the session and built the params
StartsTurn(c) == pc[c] = "sm_session" /\ pc'[c] = "sm_request"
\* the path of the workspace whose session the call uses
SessionPath(c) == procs[sessions[loc[c].arg]].path

\* C20: whenever send_user_message starts a turn, the params of the turn follow
\* from the access mode it was given: "full-access" gives the sandbox policy
\* dangerFullAccess alone and the approval policy "never"; "read-only" gives
\* the sandbox policy readOnly alone and "on-request"; every other value, and
\* no value, give workspaceWrite with the session's workspace path as the only
\* writable root, network access enabled, and "on-request".
C20_AccessModePolicies ==
    [][\A c \in Conns :
         StartsTurn(c) =>
           LET mode == loc[c].args.access_mode
               turn == loc'[c].turn
           IN  /\ mode = "full-access" =>
                    /\ turn.sandboxPolicy = [type |-> "dangerFullAccess"]
                    /\ turn.approvalPolicy = "never"
               /\ mode = "read-only" =>
                    /\ turn.sandboxPolicy = [type |-> "readOnly"]
                    /\ turn.approvalPolicy = "on-request"
               /\ mode \notin {"full-access", "read-only"} =>
                    /\ turn.sandboxPolicy =
                         [type |-> "workspaceWrite", writableRoots |-> <<SessionPath(c)>>,
                          networkAccess |-> TRUE]
                    /\ SessionPath(c) = workspaces[loc[c].arg].path
                    /\ turn.approvalPolicy = "on-request"]_vars

\* two turns are being started on the connected workspace: one with
\* "full-access", one with no access mode
C20_Witness ==
    \E c, d \in Conns :
      /\ pc[c] = "sm_request" /\ pc[d] = "sm_request"
      /\ loc[c].args.access_mode = "full-access" /\ loc[c].turn.approvalPolicy = "never"
      /\ loc[d].args.access_mode = None
      /\ loc[d].turn.sandboxPolicy.type = "workspaceWrite"

(***************************************************************************)
(* SpecLoad: the daemon starts on files written by an earlier version,     *)
(* clients update entries and settings, and the daemon starts again.       *)
(***************************************************************************)
\* {"id":..,"name":..,"path":..,"codexBin":null}
MinimalEntry(id) ==
    JObj([id |-> JStr(id), name |-> JStr(RepoName), path |-> JStr(MainPath(<<RepoName>>)),
          codexBin |-> JNull])

FullWorktreeEntry(id, parent) ==
    JObj([id |-> JStr(id), name |-> JStr(BranchName),
          path |-> JStr(WorktreeDir(<<RepoName>>, BranchTwin)), codex_bin |-> JStr("codex"),
          kind |-> JStr("worktree"), parentId |-> JStr(parent),
          worktree |-> JObj([branch |-> JStr(BranchName)]),
          settings |-> JObj([sortOrder |-> JWords(<<3>>)])])

LoadDocs ==
    { EmptyMap,
      Put(EmptyMap, Id(1), MinimalEntry(Id(1))),
      Put(Put(EmptyMap, Id(1), MinimalEntry(Id(1))), Id(2), FullWorktreeEntry(Id(2), Id(1))),
      Put(EmptyMap, Id(1),
          JObj([id |-> JStr(Id(1)), name |-> JStr(RepoName),
                path |-> JStr(MainPath(<<RepoName>>)), settings |-> JObj(EmptyMap),
                parentId |-> JNull, worktree |-> JNull])),
      Put(Put(EmptyMap, Id(1), MinimalEntry(Id(1))), Id(2),
          JObj([id |-> JStr(Id(2)), name |-> JStr(RepoName),
                path |-> JStr(MainPath(<<RepoName>>)), kind |-> JNull])) }

SettingsDocs ==
    { JAbsent,
      JObj(EmptyMap),
      JObj([backendMode |-> JStr("remote"), uiScale |-> JNum(2), codexBin |-> JStr("codex")]),
      JObj([uiScale |-> JStr("big")]) }

RemoteSettings ==
    JObj([backendMode |-> JStr("remote"), remoteBackendHost |-> JStr("10.0.0.1:1"),
          remoteBackendToken |-> JStr("t"), defaultAccessMode |-> JStr("read-only"),
          uiScale |-> JFloat(150), notificationSoundsEnabled |-> JBool(FALSE)])

LoadLines ==
    << Req(1, "update_workspace_settings",
           JObj([id |-> JStr(Id(1)), settings |-> JObj([sortOrder |-> JWords(<<5>>)])])),
       Req(1, "update_workspace_settings",
           JObj([id |-> JStr(Id(2)), settings |-> JObj([sidebarCollapsed |-> JBool(TRUE)])])),
       Req(1, "update_workspace_codex_bin",
           JObj([id |-> JStr(Id(1)), codex_bin |-> JStr("codex")])),
       Req(1, "get_app_settings", JNull),
       Req(1, "update_app_settings", JObj([settings |-> JObj(EmptyMap)])),
       Req(1, "update_app_settings", JObj([settings |-> RemoteSettings])),
       Req(1, "update_app_settings", JNull) >>

InitLoad ==
    /\ token = None
    /\ InitConns
    /\ stored \in LoadDocs
    /\ workspaces = LoadWorkspaces(stored)
    /\ settings_file \in SettingsDocs
    /\ app_settings = LoadSettings(settings_file)
    /\ sessions = EmptyMap
    /\ lock_sessions = 0
    /\ lock_workspaces = 0
    /\ procs = <<>>
    /\ fs = EmptyMap
    /\ nextId = 2

AppSettingsStep(c) == as_get(c) \/ as_write(c) \/ as_store(c)

NextLoad ==
    \/ \E c \in Conns : Accept(c)
    \/ \E c \in Conns : ReadLine(c, LoadLines, MaxLoadLines)
    \/ \E c \in Conns : UpdateSettingsStep(c)
    \/ \E c \in Conns : UpdateCodexBinStep(c)
    \/ \E c \in Conns : AppSettingsStep(c)
    \/ \E c \in Conns : Close(c)
    \/ Restart

SpecLoad == InitLoad /\ [][NextLoad]_vars

(***************************************************************************)
(* Claims about the persisted form (SpecLoad).                             *)
(***************************************************************************)
\* the keys of a JSON object
Keys(v) == IF v.k = "obj" THEN DOMAIN v.o ELSE {}
\* an entry document with none of kind, parentId, worktree and settings
Sparse(v) ==
    /\ Keys(v) \cap {"kind", "parentId", "worktree", "settings"} = {}
    /\ {"id", "name", "path"} \subseteq Keys(v)
\* the daemon starts again
Loads == status # status' /\ status' = [c \in Conns |-> "none"]

\* C21: (1) when the daemon has loaded a file whose entries are all sparse
\* (no kind, parentId, worktree, settings) and no request was read since,
\* every entry is in the registry as kind Main with no parent_id, no worktree
\* and no sort_order; (2) when it has loaded the empty settings document, the
\* settings have no binary override, backend mode Local, access mode
\* "current" and notification sounds enabled; (3) writing the registry and
\* the settings a run holds and loading them again gives the same registry
\* and the same settings, also when the daemon starts again on the files it
\* wrote.
C21_DefaultsAndRoundTrip ==
    /\ []((nlines = 0 /\ \A id \in DOMAIN stored : Sparse(stored[id])) =>
            /\ DOMAIN workspaces = DOMAIN stored
            /\ \A id \in DOMAIN workspaces :
                 /\ workspaces[id].kind = "main"
                 /\ workspaces[id].parent_id = None
                 /\ workspaces[id].worktree = <<>>
                 /\ workspaces[id].settings.sort_order = NoOrder)
    /\ []((nlines = 0 /\ settings_file = JObj(EmptyMap)) =>
            /\ app_settings.codex_bin = None
            /\ app_settings.backend_mode = "local"
            /\ app_settings.default_access_mode = "current"
            /\ app_settings.notification_sounds_enabled)
    /\ [](/\ LoadWorkspaces(write_workspaces(stored, workspaces)) = workspaces
          /\ LoadSettings(write_settings(settings_file, app_settings)) = app_settings)
    /\ [][(Loads /\ stored = write_workspaces(stored, workspaces)
                 /\ settings_file = write_settings(settings_file, app_settings))
            => (workspaces' = workspaces /\ app_settings' = app_settings)]_vars

\* a sparse entry got a sort order, the settings were replaced, both were
\* written, and the daemon started again on what it wrote
C21_Witness ==
    /\ nlines = 2 /\ \A c \in Conns : status[c] = "none"
    /\ Id(1) \in DOMAIN workspaces
    /\ workspaces[Id(1)].settings.sort_order = SomeOrder(0, 5)
    /\ workspaces[Id(1)].kind = "main"
    /\ app_settings.backend_mode = "remote" /\ app_settings.ui_scale = 150
    /\ ~app_settings.notification_sounds_enabled

(***************************************************************************)
(* Claims about the order of the replies of one connection (SpecRpc).      *)
(***************************************************************************)
\* connection c is awaiting an operation and a line is left for it to read
Executing(c) == status[c] = "open" /\ pc[c] # "read" /\ nlines < MaxRpcLines

\* C22: a request whose operation is still executing does not hold back a
\* later request of the same connection: while the operation of a connection
\* is executing, the connection can read and start its next request.
C22_NoHeadOfLineBlocking ==
    \A c \in Conns : Executing(c) => ENABLED ReadLine(c, RpcLines, MaxRpcLines)

(***************************************************************************)
(* Claims about what ends a subprocess (SpecRpc).                          *)
(***************************************************************************)
\* the subprocess of handle h is terminated in this step
Terminated(h) == procs[h].alive /\ ~procs'[h].alive
\* a removal is at its kill in this step
RemovalKills == \E c \in Conns : pc[c] \in KillSteps /\ pc'[c] # pc[c]
\* connection c closes in this step
Closes(c) == status[c] = "open" /\ status'[c] = "closed"

\* C23: a subprocess is terminated only in the kill step of a remove_workspace
\* or a remove_worktree; in particular a step in which a connection closes,
\* or reads a line that is no removal (auth included), terminates none and
\* leaves the session map as it is.
C23_OnlyRemovalKills ==
    [][/\ \A h \in DOMAIN procs : Terminated(h) => RemovalKills
       /\ \A c \in Conns : Closes(c) => (procs' = procs /\ sessions' = sessions)
       /\ ReadsLine => procs' = procs]_vars

\* a connection authenticated, connected the workspace and closed: the
\* session is in the map and its subprocess alive
C23_Witness ==
    \E c \in Conns :
      /\ token = Secret /\ status[c] = "closed"
      /\ Id(1) \in DOMAIN sessions /\ procs[sessions[Id(1)]].alive

(***************************************************************************)
(* Claims about concurrent removals (SpecReg).                             *)
(***************************************************************************)
\* the worktree directory whose `git worktree remove --force` connection c
\* has issued and is awaiting (NoEntry: none)
ForceRemoving(c) ==
    IF pc[c] = "rt_git" THEN loc[c].entry.path
    ELSE IF pc[c] = "rw_child_git" THEN loc[c].child.path
    ELSE MainPath(<<>>)
\* the handle whose subprocess connection c is about to kill (0: none)
Killing(c) == IF pc[c] \in KillSteps THEN loc[c].held ELSE 0

\* C24: removals that run concurrently never act twice: no two connections
\* are killing the same subprocess, and no two connections have issued the
\* force-remove of the same worktree directory.
C24_NoDoubleActing ==
    \A c, d \in Conns :
      c # d =>
        /\ Killing(c) # 0 => Killing(c) # Killing(d)
        /\ ForceRemoving(c) # MainPath(<<>>) => ForceRemoving(c) # ForceRemoving(d)

(***************************************************************************)
(* Claims about the locks (SpecReg).                                       *)
(***************************************************************************)
\* the steps at which an operation awaits a git command, a spawn or a kill
ExternalSteps ==
    KillSteps \cup {"cw_spawn", "aw_spawn", "wt_spawn", "wt_git", "rw_child_git", "rw_prune",
                    "rt_git", "rt_prune"}

\* C25: no connection holds the lock of the session map while it awaits an
\* external operation (a git command, a spawn or a kill).
C25_NoLockAcrossExternal ==
    \A c \in Conns : pc[c] \in ExternalSteps => lock_sessions # c

(***************************************************************************)
(* SpecClose: the connection layer with its write task writing the queue    *)
(* to the socket, events being forwarded, and connections closing.         *)
(***************************************************************************)
NextClose ==
    \/ \E c \in Conns : Accept(c)
    \/ \E c \in Conns : ReadLine(c, BusLines, MaxCloseLines)
    \/ \E c \in Conns : ConnectWorkspaceStep(c)
    \/ \E c \in Conns : WriteOne(c)
    \/ \E c \in Conns : WriteFail(c)
    \/ \E c \in Conns : Close(c)
    \/ \E c \in Conns : ForwardEvents(c)
    \/ \E kind \in EventKinds : Emit(kind)

SpecClose == Init /\ [][NextClose]_vars

(***************************************************************************)
(* Claims about the end of a connection (SpecClose).                       *)
(***************************************************************************)
\* C26: when the read loop of a connection ends, every message enqueued for
\* the connection has been written to the socket, and from then on nothing is
\* enqueued for it.
C26_DrainedAtClose ==
    [][\A c \in Conns :
         /\ (Closes(c) /\ write_task[c] = "running") => wrote[c] = Len(out[c])
         /\ status[c] = "closed" => out'[c] = out[c]]_vars

(***************************************************************************)
(* Claims about emitting and lagging (Spec).                               *)
(***************************************************************************)
\* the receiver of connection c is behind the oldest retained event
Lagging(c) == rx[c] < Len(bus) - BusCapacity
\* the events_task of connection c takes a step of its loop
Forwards(c) == events_task[c] = "running" /\ status'[c] = "open" /\ rx'[c] # rx[c]

\* C27: (1) a live session can emit whatever the positions of the receivers
\* are, and emitting changes nothing of any connection; (2) a step of a
\* lagging receiver enqueues nothing and moves it to the oldest retained
\* event, a step of any other receiver enqueues the next event (if the writer
\* is running) and moves it by one; (3) the notifications of a queue are in
\* the order of the events, so no dropped event arrives later; (4) a
\* receiver with unread events can take its step whatever the others do.
C27_LagSkipsNoReplay ==
    /\ [](\A kind \in EventKinds :
            ((\E p \in DOMAIN procs : procs[p].alive) /\ Len(bus) < MaxEvents)
              => ENABLED Emit(kind))
    /\ [][/\ bus' # bus => UNCHANGED connVars
          /\ \A c \in Conns :
               Forwards(c) =>
                 IF Lagging(c)
                 THEN rx'[c] = Len(bus) - BusCapacity /\ out'[c] = out[c]
                 ELSE /\ rx'[c] = rx[c] + 1
                      /\ SendOk(c) => (Len(out'[c]) = Len(out[c]) + 1
                                       /\ out'[c][Len(out'[c])].ev = rx[c] + 1)
                      /\ \A d \in Conns \ {c} : out'[d] = out[d]]_vars
    /\ [](\A c \in Conns : \A j, k \in NotifAt(c) : j < k => out[c][j].ev < out[c][k].ev)
    /\ [](\A c \in Conns :
            (events_task[c] = "running" /\ rx[c] < Len(bus)) => ENABLED ForwardEvents(c))

\* connection c was Authenticated when both events were emitted, lagged, and
\* got the second event only
C27_Witness ==
    \E c \in Conns :
      /\ Len(bus) = 2 /\ c \in bus[1].authed /\ status[c] = "open"
      /\ rx[c] = 2 /\ Delivered(c, 2) /\ ~Delivered(c, 1)

(***************************************************************************)
(* Claims about the frame of remove_worktree (SpecReg).                    *)
(***************************************************************************)
RtSteps == {"rt_snapshot", "rt_session", "rt_kill", "rt_git", "rt_prune", "rt_commit"}
\* connection c takes a step of remove_worktree
RtStep(c) == pc[c] \in RtSteps /\ pc'[c] # pc[c]

\* C28: every step of remove_worktree(id) leaves each entry other than id,
\* each session other than id's, each subprocess other than the one of id's
\* session and each worktree directory other than id's as it was; the step
\* that takes the session removes id from the session map, and a call that
\* returns Ok has removed id from the registry and stored the list without it.
C28_RemoveWorktreeFrame ==
    [][\A c \in Conns :
         RtStep(c) =>
           /\ workspaces' \in {workspaces, Del(workspaces, {loc[c].arg})}
           /\ sessions' \in {sessions, Del(sessions, {loc[c].arg})}
           /\ \A h \in DOMAIN procs :
                procs'[h] # procs[h] => (procs[h].ws = loc[c].arg /\ h \notin Handles(sessions))
           /\ Len(procs') = Len(procs)
           /\ fs' # fs => (/\ pc[c] = "rt_git"
                            /\ loc[c].entry.id = loc[c].arg
                            /\ fs' = Del(fs, {loc[c].entry.path}))
           /\ (pc[c] = "rt_session" /\ loc[c].arg \in DOMAIN sessions)
                => loc[c].arg \notin DOMAIN sessions'
           /\ (pc'[c] = "read" /\ loc'[c].ret.ok)
                => /\ loc[c].arg \notin DOMAIN workspaces'
                   /\ workspaces' = Del(workspaces, {loc[c].arg})
                   /\ StoredList' = workspaces']_vars

\* remove_worktree(w2) returned Ok: w2, its session and its directory are
\* gone, while the parent w1 and the sibling w3 with its live session and its
\* directory are there
C28_Witness ==
    /\ nlines = 3 /\ \A c \in Conns : pc[c] = "read"
    /\ lastline.m = Req(1, "remove_worktree", JObj([id |-> JStr(Id(2))]))
    /\ loc[lastline.c].ret.ok
    /\ DOMAIN workspaces = {Id(1), Id(3)} /\ workspaces[Id(3)].parent_id = Id(1)
    /\ DOMAIN sessions = {Id(3)} /\ procs[sessions[Id(3)]].alive
    /\ \E h \in DOMAIN procs : procs[h].ws = Id(2) /\ ~procs[h].alive
    /\ DOMAIN fs = {workspaces[Id(3)].path}

(***************************************************************************)
(* SpecAlloc: add_worktree on a repository whose .codex-worktrees holds    *)
(* the directories a-b, a-b-2, ..., left there by earlier runs.            *)
(***************************************************************************)
\* the directories name, name-2, ..., name-n under dir, none of them a
\* checkout of a branch
TakenDirs(dir, name, n) ==
    IF n = 0 THEN EmptyMap
    ELSE [q \in {WorktreeDir(dir, name)} \cup {SuffixedPath(dir, name, k) : k \in 2..n} |-> <<>>]

AllocLines ==
    << Req(1, "add_worktree", JObj([parentId |-> JStr(Id(1)), branch |-> JStr(BranchName)])),
       Req(1, "add_worktree", JObj([parentId |-> JStr(Id(1)), branch |-> JStr(BranchTwin)])) >>

InitAlloc ==
    /\ token = None
    /\ InitConns
    /\ stored = write_workspaces(EmptyMap, LoadedWorkspaces)
    /\ workspaces = LoadWorkspaces(stored)
    /\ settings_file = JAbsent
    /\ app_settings = LoadSettings(settings_file)
    /\ sessions = EmptyMap
    /\ lock_sessions = 0
    /\ lock_workspaces = 0
    /\ procs = <<>>
    /\ fs \in { TakenDirs(<<RepoName>>, sanitize_worktree_name(BranchName), n) :
                  n \in {0, SuffixEnd - 2, SuffixEnd - 1} }
    /\ nextId = 1

NextAlloc ==
    \/ \E c \in Conns : Accept(c)
    \/ \E c \in Conns : ReadLine(c, AllocLines, MaxAllocLines)
    \/ \E c \in Conns : AddWorktreeStep(c)
    \/ \E c \in Conns : Close(c)

SpecAlloc == InitAlloc /\ [][NextAlloc]_vars

(***************************************************************************)
(* Claims about the exhaustion of the suffixes (SpecAlloc).                *)
(***************************************************************************)
\* the base name and every suffix unique_worktree_path tries exist
AllTaken(dir, name) ==
    \A k \in 1..(SuffixEnd - 1) : Exists(WorktreeDir(dir, SuffixedLeaf(name, k)))

\* C29: the path that add_worktree goes on with to git does not exist when
\* unique_worktree_path returns it, and when the base name and every suffix
\* are taken add_worktree returns an error at that step.
C29_AllocatedPathIsFree ==
    [][\A c \in Conns :
         Leaves(c, "wt_parent") =>
           /\ pc'[c] = "wt_git" => ~Exists(loc'[c].path)
           /\ (/\ loc[c].arg \in DOMAIN workspaces
               /\ AllTaken(workspaces[loc[c].arg].path.dir, CleanName(loc[c].branch)))
                => (pc'[c] = "read" /\ ~loc'[c].ret.ok)]_vars

(***************************************************************************)
(* Claims about a failing child teardown in remove_workspace (SpecReg).    *)
(***************************************************************************)
\* the steps of remove_workspace after its snapshot
RwSteps == {"rw_child", "rw_child_kill", "rw_child_git", "rw_prune", "rw_own", "rw_own_kill",
            "rw_commit"}

\* C30: whatever the teardown of a child gives, remove_workspace goes on:
\* after the step on a child's directory it is at the next child or at the
\* prune, and it returns only from the step that removes the entries from
\* the registry.
C30_BestEffortContinue ==
    [][\A c \in Conns :
         /\ Leaves(c, "rw_child_git") => pc'[c] \in {"rw_child", "rw_prune"}
         /\ (pc[c] \in RwSteps /\ pc'[c] = "read" /\ status'[c] = "open")
              => (pc[c] = "rw_commit"
                  /\ workspaces' = Del(workspaces, {loc[c].arg} \cup
                                                   {ch.id : ch \in loc[c].children}))]_vars

(***************************************************************************)
(* Claims about the order of a removal (SpecReg).                          *)
(***************************************************************************)
\* connection c's removal starts the force-remove of a worktree in this step
StartsForceRemove(c) == pc'[c] \in {"rt_git", "rw_child_git"} /\ pc'[c] # pc[c]
\* the worktree whose teardown connection c's removal is at
TornDown(c) == IF pc[c] \in RtSteps THEN loc[c].entry ELSE loc[c].child

\* C31: (1) a removal starts the force-remove of a worktree either from its
\* kill, which has ended the subprocess of the session it took, or with no
\* session of the worktree in the map; (2) it leaves the teardown of a
\* worktree towards the registry removal only with the directory gone: from
\* a force-remove that removed it, or having found it absent; (3) the child
\* loop of remove_workspace ends with every child of its snapshot done;
\* (4) the registry changes at the commit only, which follows the prune
\* whatever the prune gave.
C31_KillThenRemoveThenCommit ==
    [][\A c \in Conns :
         /\ StartsForceRemove(c) =>
              IF pc[c] \in KillSteps
              THEN ~procs'[loc[c].held].alive
              ELSE loc'[c].held = 0 /\ TornDown(c)'.id \notin DOMAIN sessions
         /\ (pc[c] \in {"rt_session", "rt_kill", "rt_git", "rw_child", "rw_child_kill",
                        "rw_child_git"}
             /\ pc'[c] \in {"rt_prune", "rw_prune", "rw_child"} /\ pc'[c] # pc[c])
              => ~(Exists(TornDown(c).path))'
         /\ (pc[c] = "rw_child" /\ pc'[c] \in {"rw_prune", "rw_child"}
             /\ loc'[c].todo # loc[c].todo)
              => ~Exists(loc'[c].child.path)
         /\ (pc'[c] = "rw_prune" /\ pc[c] # "rw_prune") => loc'[c].todo = {}
         /\ (pc[c] \in RtSteps \cup RwSteps /\ pc'[c] # pc[c] /\ workspaces' # workspaces)
              => pc[c] \in {"rt_commit", "rw_commit"}
         /\ (pc'[c] = "rt_commit" /\ pc[c] # pc'[c]) => pc[c] = "rt_prune"
         /\ (pc'[c] = "rw_commit" /\ pc[c] # pc'[c]) => pc[c] \in {"rw_own", "rw_own_kill"}
         /\ (pc'[c] = "rw_own" /\ pc[c] # pc'[c]) => pc[c] = "rw_prune"
         /\ Leaves(c, "rt_prune") => pc'[c] = "rt_commit"
         /\ Leaves(c, "rw_prune") => pc'[c] = "rw_own"]_vars

\* remove_workspace(w1) returned Ok with two children: both directories are
\* gone, the subprocess of a child's session is dead and the registry is empty
C31_Witness ==
    /\ nlines = 3 /\ \A c \in Conns : pc[c] = "read"
    /\ lastline.m = Req(1, "remove_workspace", JObj([id |-> JStr(Id(1))]))
    /\ loc[lastline.c].ret.ok
    /\ DOMAIN workspaces = {} /\ DOMAIN fs = {} /\ DOMAIN sessions = {}
    /\ nextId = 3
    /\ \E h \in DOMAIN procs : procs[h].ws = Id(2) /\ ~procs[h].alive

(***************************************************************************)
(* Claims about sessions and subprocesses under interleaving (SpecReg).    *)
(***************************************************************************)
\* no operation is in progress on any connection
Quiescent == \A c \in Conns : pc[c] = "read"

\* C32: whenever no operation is in progress, every id of the session map is
\* the id of an entry of the registry.
C32_SessionsHaveEntries ==
    Quiescent => DOMAIN sessions \subseteq DOMAIN workspaces

\* C33: no two live subprocesses were spawned for the same workspace id, and
\* whenever no operation is in progress every live subprocess is the one the
\* session map holds under its id.
C33_OneLiveSubprocessPerId ==
    /\ \A h, g \in DOMAIN procs :
         (procs[h].alive /\ procs[g].alive /\ procs[h].ws = procs[g].ws) => h = g
    /\ Quiescent =>
         \A h \in DOMAIN procs :
           procs[h].alive => (procs[h].ws \in DOMAIN sessions /\ sessions[procs[h].ws] = h)

(***************************************************************************)
(* SpecLock: operations that take the two mutexes, each task polled again  *)
(* whenever it can go on (the runtime polls every woken task, and a kill   *)
(* ends).                                                                  *)
(***************************************************************************)
LockLines ==
    << Req(1, "connect_workspace", JObj([id |-> JStr(Id(1))])),
       Req(1, "remove_workspace", JObj([id |-> JStr(Id(1))])),
       Req(1, "list_workspaces", JNull),
       Req(1, "update_workspace_settings",
           JObj([id |-> JStr(Id(1)), settings |-> JObj([sortOrder |-> JWords(<<5>>)])])) >>

LockStep(c) ==
    \/ ConnectWorkspaceStep(c)
    \/ rw_snapshot(c) \/ rw_prune(c) \/ rw_own(c) \/ rw_own_kill(c) \/ rw_commit(c)
    \/ ListWorkspacesStep(c)
    \/ UpdateSettingsStep(c)

NextLock ==
    \/ \E c \in Conns : Accept(c)
    \/ \E c \in Conns : ReadLine(c, LockLines, MaxLockLines)
    \/ \E c \in Conns : LockStep(c)
    \/ \E c \in Conns : Close(c)

SpecLock == InitReg /\ [][NextLock]_vars /\ \A c \in Conns : WF_vars(LockStep(c))

(***************************************************************************)
(* Claims about the order of the locks (SpecLock).                         *)
(***************************************************************************)
\* the steps that start with a request for the workspaces mutex
RegistryLockSteps ==
    {"cw_entry", "aw_insert", "wt_parent", "wt_insert", "rw_snapshot", "rw_commit",
     "rt_snapshot", "rt_commit", "us_update", "ub_update", "lw_list"}

\* C34: (1) a task that holds the sessions mutex over an await is at a kill
\* and requests the workspaces mutex at none of its steps while it holds it;
\* (2) a task that holds the workspaces mutex over an await took it first and
\* is waiting for the sessions mutex; (3) every operation that was started
\* returns, so every request for a lock is granted.
C34_NoDeadlock ==
    /\ [](\A c \in Conns :
            lock_sessions = c => (pc[c] \in KillSteps /\ pc[c] \notin RegistryLockSteps
                                  /\ lock_workspaces # c))
    /\ [](\A c \in Conns :
            lock_workspaces = c => (pc[c] = "lw_sessions" /\ lock_sessions # c))
    /\ \A c \in Conns : (pc[c] # "read") ~> (pc[c] = "read")

\* list_workspaces holds the workspaces mutex and waits for the sessions
\* mutex, which a removal holds over its kill
C34_Witness ==
    \E c, d \in Conns :
      /\ pc[c] = "lw_sessions" /\ lock_workspaces = c
      /\ pc[d] = "rw_own_kill" /\ lock_sessions = d

(***************************************************************************)
(* Claims about which entries a removal accepts (SpecReg).                 *)
(***************************************************************************)
\* remove_workspace(id) passes the checks of its snapshot
RemoveWorkspaceAccepts(id) == id \in DOMAIN workspaces /\ ~is_worktree(workspaces[id])
\* remove_worktree(id) passes the checks of its snapshot
RemoveWorktreeAccepts(id) ==
    /\ id \in DOMAIN workspaces /\ is_worktree(workspaces[id])
    /\ workspaces[id].parent_id # None
    /\ workspaces[id].parent_id \in DOMAIN workspaces

\* C35: in every reachable state each entry of the registry is accepted by
\* remove_workspace or by remove_worktree.
C35_EveryEntryRemovable ==
    \A id \in DOMAIN workspaces : RemoveWorkspaceAccepts(id) \/ RemoveWorktreeAccepts(id)

(***************************************************************************)
(* Claims about the subscription of a connection (Spec).                   *)
(***************************************************************************)
\* C36: (1) an "auth" read on an Authenticated connection is answered
\* "unknown method: auth" (when it has an id) and changes neither the auth
\* state nor the event-forwarding task nor its receiver; (2) an
\* event-forwarding task is started only for a connection that had none, in
\* the step that makes it Authenticated; (3) it goes away only with the
\* connection: a connection has at most one in its lifetime.
C36_OneSubscription ==
    /\ [][(ReadsLine /\ authenticated[Reader] /\ Line.k # "bad" /\ ReqMethod(Line) = "auth")
           => /\ out' = (IF ReqId(Line) # NoId
                         THEN Enqueued(Reader, ErrorMsg(ReqId(Line), "unknown method: auth"))
                         ELSE out)
              /\ UNCHANGED <<authenticated, events_task, rx>>]_vars
    /\ [][\A c \in Conns :
            /\ (events_task'[c] = "running" /\ events_task[c] # "running")
                 => (events_task[c] = "none" /\ ~authenticated[c] /\ authenticated'[c])
            /\ (events_task[c] # "none" /\ events_task'[c] = "none")
                 => status'[c] # "open"]_vars

\* on a token-protected daemon a connection authenticated, sent "auth" again
\* and was answered "unknown method: auth"; its one task is running
C36_Witness ==
    \E c \in Conns :
      /\ token # None /\ status[c] = "open" /\ authenticated[c]
      /\ events_task[c] = "running"
      /\ out[c] = <<ResultMsg(1, "ok"), ErrorMsg(1, "unknown method: auth")>>

\* C37: on a token-protected daemon (1) the step that authenticates a
\* connection enqueues the ok reply (when the request has an id) on a queue
\* that holds no notification, and the receiver it opens starts at the tail
\* of the channel; (2) every notification in a queue comes after a result.
C37_AuthOkBeforeEvents ==
    /\ [][(ReadsLine /\ token # None /\ ~authenticated[Reader] /\ authenticated'[Reader])
           => /\ NotifAt(Reader) = {}
              /\ out' = (IF ReqId(Line) # NoId
                         THEN Enqueued(Reader, ResultMsg(ReqId(Line), "ok"))
                         ELSE out)
              /\ rx'[Reader] = Len(bus)]_vars
    /\ [](token # None =>
            \A c \in Conns : \A k \in NotifAt(c) :
              \E j \in 1..(k - 1) : out[c][j] = ResultMsg(1, "ok"))

\* on a token-protected daemon the queue of a connection holds the ok reply
\* of its auth and then the notification of an event
C37_Witness ==
    \E c \in Conns :
      /\ token # None /\ Len(out[c]) >= 2
      /\ out[c][1] = ResultMsg(1, "ok") /\ out[c][2].t = "notif"

(***************************************************************************)
(* Claims about operations that return an error (SpecList, SpecLoad).      *)
(***************************************************************************)
AddSteps == {"aw_spawn", "aw_insert", "aw_session", "wt_parent", "wt_git", "wt_spawn",
             "wt_insert", "wt_session"}
UpdateSteps == {"us_update", "us_connected", "ub_update", "ub_connected", "as_write",
                "as_store"}
\* the operation of connection c, at one of `steps`, returns an error in this step
ReturnsError(c, steps) == pc[c] \in steps /\ pc'[c] = "read" /\ ~loc'[c].ret.ok

\* C38: a step of add_workspace or add_worktree changes the registry only if
\* the call does not return an error at that step, so a call that returns an
\* error leaves the registry as it was.
C38_FailedAddLeavesRegistry ==
    [][\A c \in Conns : ReturnsError(c, AddSteps) => workspaces' = workspaces]_vars

\* C39: a step of update_workspace_settings, update_workspace_codex_bin or
\* update_app_settings that returns an error leaves the registry and the
\* settings in memory as they were.
C39_FailedUpdateLeavesMemory ==
    [][\A c \in Conns :
         ReturnsError(c, UpdateSteps)
           => (workspaces' = workspaces /\ app_settings' = app_settings)]_vars

====
